---------------------------- MODULE Spec2Model ----------------------------
(***************************************************************************)
(* ACP700 Duty Manager: the FDP calculator (js/fdp-calculator.js), the     *)
(* compliance checker (js/compliance.js), the rest calculator, the         *)
(* localStorage-backed store of duty records and of the active duty        *)
(* session (js/storage.js), and the duty handlers of the page (js/app.js). *)
(*                                                                         *)
(* Representation of JavaScript values                                     *)
(*   - a time string "HH:MM" is the tuple of the integers that             *)
(*     split(':') and parseInt give: "07:30" is <<7, 30>>, "" is <<>>,     *)
(*     "7" is <<7>>, "ab:10" is <<NaN, 10>>;                               *)
(*   - an object is a function from its keys to values; the keys that are  *)
(*     undefined are missing from its domain; the null object is <<>>;     *)
(*   - a null number is nullNum, a null string is nullStr;                 *)
(*   - a calendar date "YYYY-MM-DD" is its day number; an instant is a     *)
(*     number of minutes from day 0 00:00 UTC; a number of hours typed     *)
(*     into a form is a number of tenths of an hour, and a sector count    *)
(*     given to the FDP calculator a number of tenths.                     *)
(***************************************************************************)
EXTENDS Integers, Sequences, FiniteSets, TLC

VARIABLES
    storageAvailable,   \* isStorageAvailable(): localStorage accepts a write
    acp700_active_duty, \* localStorage[KEYS.ACTIVE_DUTY], null when absent
    acp700_duty_records,\* localStorage[KEYS.DUTY_RECORDS], a sequence
    nextId,             \* the identifier generateId() gives next
    clock,              \* new Date(): minutes from day 0 00:00 UTC
    tz,                 \* the local time zone: minutes east of UTC
    state,              \* app.js: the page's state object
    timers,             \* the live intervals that setInterval(updateDutyDisplay) made
    call                \* the last call: its name, arguments and result

vars == <<storageAvailable, acp700_active_duty, acp700_duty_records, nextId, clock, tz,
          state, timers, call>>

storeVars == <<storageAvailable, acp700_active_duty, acp700_duty_records, nextId, clock, tz,
               state, timers>>

-----------------------------------------------------------------------------
(* JavaScript values *)

null == <<>>

nullNum == -2000000

nullStr == "null"

NaN == -1000000

isNaN(x) == x = NaN

Max(a, b) == IF a >= b THEN a ELSE b

Min(a, b) == IF a <= b THEN a ELSE b

\* obj[k], or d when the key is undefined
Get(obj, k, d) == IF k \in DOMAIN obj THEN obj[k] ELSE d

\* { ...a, ...b }
Spread(a, b) ==
    [k \in (DOMAIN a) \cup (DOMAIN b) |-> IF k \in DOMAIN b THEN b[k] ELSE a[k]]

NoCall == [op |-> "none", done |-> TRUE]

-----------------------------------------------------------------------------
(* js/fdp-calculator.js *)

UNACCLIMATIZED_REDUCTION == 60

MAX_FDP_ABSOLUTE == 840

MIN_FDP_ABSOLUTE == 540

WOCL_START == 2 * 60

WOCL_END == 6 * 60

FDP_TABLE ==
    [r \in {"0600-0659", "0700-1159", "1200-1359", "1400-1759", "1800-2159", "2200-0559"} |->
        CASE r = "0600-0659" -> [s \in {"1-2", "3-4", "5+"} |->
                 CASE s = "1-2" -> 780 [] s = "3-4" -> 750 [] s = "5+" -> 720]
          [] r = "0700-1159" -> [s \in {"1-2", "3-4", "5+"} |->
                 CASE s = "1-2" -> 840 [] s = "3-4" -> 810 [] s = "5+" -> 780]
          [] r = "1200-1359" -> [s \in {"1-2", "3-4", "5+"} |->
                 CASE s = "1-2" -> 780 [] s = "3-4" -> 750 [] s = "5+" -> 720]
          [] r = "1400-1759" -> [s \in {"1-2", "3-4", "5+"} |->
                 CASE s = "1-2" -> 720 [] s = "3-4" -> 690 [] s = "5+" -> 660]
          [] r = "1800-2159" -> [s \in {"1-2", "3-4", "5+"} |->
                 CASE s = "1-2" -> 660 [] s = "3-4" -> 630 [] s = "5+" -> 600]
          [] r = "2200-0559" -> [s \in {"1-2", "3-4", "5+"} |->
                 CASE s = "1-2" -> 600 [] s = "3-4" -> 570 [] s = "5+" -> 540]]

\* FDPCalculator.timeToMinutes: nullNum for a string that is no HH:MM time
timeToMinutes(timeStr) ==
    IF timeStr = <<>> THEN nullNum
    ELSE IF Len(timeStr) # 2 THEN nullNum
    ELSE LET hours == timeStr[1]
             minutes == timeStr[2]
         IN  IF isNaN(hours) \/ isNaN(minutes) THEN nullNum
             ELSE IF hours < 0 \/ hours > 23 \/ minutes < 0 \/ minutes > 59 THEN nullNum
             ELSE hours * 60 + minutes

\* Ranges whose morning ones change at 08:00
LateMorningRange(reportMinutes) ==
    LET hour == reportMinutes \div 60
    IN  IF hour >= 6 /\ hour < 8 THEN "0600-0659"
        ELSE IF hour >= 8 /\ hour < 12 THEN "0700-1159"
        ELSE IF hour >= 12 /\ hour < 14 THEN "1200-1359"
        ELSE IF hour >= 14 /\ hour < 18 THEN "1400-1759"
        ELSE IF hour >= 18 /\ hour < 22 THEN "1800-2159"
        ELSE "2200-0559"

getReportTimeRange(reportMinutes) ==
    LET hour == reportMinutes \div 60
    IN  IF hour >= 6 /\ hour < 7 THEN "0600-0659"
        ELSE IF hour >= 7 /\ hour < 12 THEN "0700-1159"
        ELSE IF hour >= 12 /\ hour < 14 THEN "1200-1359"
        ELSE IF hour >= 14 /\ hour < 18 THEN "1400-1759"
        ELSE IF hour >= 18 /\ hour < 22 THEN "1800-2159"
        ELSE "2200-0559"

\* Ranges taken in the reverse order
ReversedSectorRange(numSectors) ==
    IF numSectors <= 2 THEN "5+"
    ELSE IF numSectors <= 4 THEN "3-4"
    ELSE "1-2"

getSectorRange(numSectors) ==
    IF numSectors <= 2 THEN "1-2"
    ELSE IF numSectors <= 4 THEN "3-4"
    ELSE "5+"

isInWOCL(timeMinutes) == timeMinutes >= WOCL_START /\ timeMinutes < WOCL_END

\* A duty that encroaches only when it ends inside the window
EndsInWOCL(startMinutes, endMinutes) == isInWOCL(endMinutes)

\* The overlap of a duty that does not pass midnight
SameDayOverlap(startMinutes, endMinutes) ==
    startMinutes < WOCL_END /\ endMinutes > WOCL_START

encroachesWOCL(startMinutes, endMinutes) ==
    IF endMinutes < startMinutes
    THEN \/ startMinutes < WOCL_END
         \/ endMinutes > WOCL_START
         \/ (startMinutes <= WOCL_END /\ endMinutes >= WOCL_START)
    ELSE startMinutes < WOCL_END /\ endMinutes > WOCL_START

\* Math.max(MIN_FDP_ABSOLUTE, Math.min(MAX_FDP_ABSOLUTE, maxFDP))
NoClampFDP(maxFDP) == maxFDP

CeilingOnlyFDP(maxFDP) == Min(MAX_FDP_ABSOLUTE, maxFDP)

ClampFDP(maxFDP) == Max(MIN_FDP_ABSOLUTE, Min(MAX_FDP_ABSOLUTE, maxFDP))

FDPFailure(msg) ==
    [success |-> FALSE, maxFDP |-> nullNum, endOfDuty |-> nullNum, nextDay |-> FALSE,
     woclEncroachment |-> FALSE, woclInfo |-> "No encroachment",
     reportTimeRange |-> nullStr, sectorRange |-> nullStr,
     reductions |-> <<>>, error |-> msg]

\* parseInt(value, 10) of a number given in tenths: the digits before the
\* decimal point, NaN when there are none
parseInt(tenths) ==
    IF isNaN(tenths) THEN NaN
    ELSE IF tenths >= 0 THEN tenths \div 10
    ELSE 0 - ((0 - tenths) \div 10)

\* FDPCalculator.calculate(reportTime, sectors, acclimatizationStatus);
\* sectors is given in tenths (2 sectors is 20, "2.5" is 25), NaN for a value
\* with no leading digits
FDPCalculate(reportTime, sectors, acclimatizationStatus) ==
    LET reportMinutes == timeToMinutes(reportTime)
        numSectors == parseInt(sectors)
    IN  IF reportMinutes = nullNum
        THEN FDPFailure("Invalid report time format. Please use HH:MM.")
        ELSE IF isNaN(numSectors) \/ numSectors < 1 \/ numSectors > 10
        THEN FDPFailure("Invalid number of sectors. Please enter 1-10.")
        ELSE
        LET reportTimeRange == getReportTimeRange(reportMinutes)
            sectorRange == getSectorRange(numSectors)
            base == FDP_TABLE[reportTimeRange][sectorRange]
            unacc == acclimatizationStatus = "unacclimatized"
            reduced == IF unacc THEN base - UNACCLIMATIZED_REDUCTION ELSE base
            maxFDP == ClampFDP(reduced)
            endOfDuty == reportMinutes + maxFDP
            woclEncroachment == encroachesWOCL(reportMinutes, endOfDuty % 1440)
        IN  [success |-> TRUE,
             maxFDP |-> maxFDP,
             endOfDuty |-> endOfDuty % 1440,
             nextDay |-> endOfDuty >= 1440,
             woclEncroachment |-> woclEncroachment,
             woclInfo |-> IF woclEncroachment THEN "Duty encroaches WOCL (0200-0559)"
                          ELSE IF isInWOCL(reportMinutes) THEN "Report time is within WOCL"
                          ELSE "No encroachment",
             reportTimeRange |-> reportTimeRange,
             sectorRange |-> sectorRange,
             reductions |-> IF unacc
                            THEN <<[reason |-> "Unacclimatized crew",
                                    amount |-> UNACCLIMATIZED_REDUCTION]>>
                            ELSE <<>>,
             error |-> nullStr]

\* The inputs of the calculator: every time of the day, and strings that are
\* no time of the day
ValidTimes == {<<h, m>> : h \in 0..23, m \in 0..59}

InvalidTimes == {<<>>, <<7>>, <<7, 30, 0>>, <<NaN, 0>>, <<7, NaN>>,
                 <<24, 0>>, <<-1, 0>>, <<7, 60>>, <<7, -1>>}

\* The whole numbers 0..11, -1, no number, and numbers with a fraction
SectorInputs == {10 * n : n \in 0..11} \cup {-10, NaN} \cup {5, 15, 25, 109}

AcclimatizationInputs == {"acclimatized", "unacclimatized"}

\* A call of the calculator that has its arguments and has not run yet
CalculateInputs ==
    {[op |-> "calculate", done |-> FALSE, reportTime |-> reportTime,
      sectors |-> sectors, acclimatizationStatus |-> acclimatizationStatus,
      result |-> null] :
        reportTime \in ValidTimes \cup InvalidTimes,
        sectors \in SectorInputs,
        acclimatizationStatus \in AcclimatizationInputs}

Calculate ==
    /\ call.op = "calculate"
    /\ ~call.done
    /\ call' = [call EXCEPT
                    !.done = TRUE,
                    !.result = FDPCalculate(call.reportTime, call.sectors,
                                            call.acclimatizationStatus)]
    /\ UNCHANGED storeVars

-----------------------------------------------------------------------------
(* js/compliance.js *)

FLIGHT_TIME_SINGLE_DUTY == 480

FLIGHT_TIME_AUGMENTED == 780

FLIGHT_TIME_28_DAY == 6720

FLIGHT_TIME_365_DAY == 60000

DUTY_7_DAY == 3600

DUTY_28_DAY == 11400

\* LIMITS.WARNING_THRESHOLD (0.85) and LIMITS.DANGER_THRESHOLD (0.95), in
\* hundredths
WARNING_THRESHOLD == 85

DANGER_THRESHOLD == 95

STATUS == [GOOD |-> "good", WARNING |-> "warning", DANGER |-> "danger",
           EXCEEDED |-> "exceeded"]

\* ratio >= hundredths / 100, for ratio = current / limit and limit > 0.  The
\* double nearest to current / limit is compared with the double nearest to
\* 0.85 (0.95): for integers below 2^31 two different quotients differ by
\* more than a rounding error, and the division is correctly rounded, so the
\* comparison of the doubles is the comparison of the rationals.
RatioAbove(current, limit, hundredths) == 100 * current > hundredths * limit

RatioAtLeast(current, limit, hundredths) == 100 * current >= hundredths * limit

\* getStatus(current, limit); current / 0 is NaN for current = 0 (every
\* comparison false) and Infinity for current > 0
getStatus(current, limit) ==
    IF limit = 0 THEN (IF current > 0 THEN STATUS.EXCEEDED ELSE STATUS.GOOD)
    ELSE IF RatioAtLeast(current, limit, 100) THEN STATUS.EXCEEDED
    ELSE IF RatioAtLeast(current, limit, DANGER_THRESHOLD) THEN STATUS.DANGER
    ELSE IF RatioAtLeast(current, limit, WARNING_THRESHOLD) THEN STATUS.WARNING
    ELSE STATUS.GOOD

\* The local calendar day of an instant, for a zone zone minutes east of UTC
LocalDay(now, zone) == (now + zone) \div 1440

\* cutoffDate: setDate(getDate() - days) and setHours(0, 0, 0, 0) are in
\* local time, so the cutoff is the local midnight of the day `days` before
CutoffDate(now, zone, days) == (LocalDay(now, zone) - days) * 1440 - zone

\* new Date(record.date) of a date-only string "YYYY-MM-DD" is that day's
\* midnight in UTC
RecordDate(record) == record.date * 1440

InDateRange(record, days, now, zone) ==
    /\ RecordDate(record) >= CutoffDate(now, zone, days)
    /\ RecordDate(record) <= now

filterByDateRange(records, days, now, zone) ==
    SelectSeq(records, LAMBDA record : InDateRange(record, days, now, zone))

RECURSIVE sumDutyTime(_)
sumDutyTime(records) ==
    IF records = <<>> THEN 0
    ELSE Get(Head(records), "dutyMinutes", 0) + sumDutyTime(Tail(records))

RECURSIVE sumFlightTime(_)
sumFlightTime(records) ==
    IF records = <<>> THEN 0
    ELSE Get(Head(records), "flightMinutes", 0) + sumFlightTime(Tail(records))

\* check.compliant
Compliant(current, limit) == current <= limit

\* The result of a rolling-window check; the formatted strings and the
\* percentage are display values of current, limit and remaining
WindowCheck(records, totalMinutes, limit, days) ==
    [current |-> totalMinutes,
     limit |-> limit,
     remaining |-> limit - totalMinutes,
     status |-> getStatus(totalMinutes, limit),
     compliant |-> Compliant(totalMinutes, limit),
     periodDays |-> days,
     recordCount |-> Len(records)]

check7DayDuty(dutyRecords, now, zone) ==
    LET records == filterByDateRange(dutyRecords, 7, now, zone)
    IN  WindowCheck(records, sumDutyTime(records), DUTY_7_DAY, 7)

check28DayDuty(dutyRecords, now, zone) ==
    LET records == filterByDateRange(dutyRecords, 28, now, zone)
    IN  WindowCheck(records, sumDutyTime(records), DUTY_28_DAY, 28)

check28DayFlightTime(dutyRecords, now, zone) ==
    LET records == filterByDateRange(dutyRecords, 28, now, zone)
    IN  WindowCheck(records, sumFlightTime(records), FLIGHT_TIME_28_DAY, 28)

check365DayFlightTime(dutyRecords, now, zone) ==
    LET records == filterByDateRange(dutyRecords, 365, now, zone)
    IN  WindowCheck(records, sumFlightTime(records), FLIGHT_TIME_365_DAY, 365)

checkCurrentFDP(currentFDPMinutes, maxFDPMinutes) ==
    [current |-> currentFDPMinutes,
     limit |-> maxFDPMinutes,
     remaining |-> maxFDPMinutes - currentFDPMinutes,
     status |-> getStatus(currentFDPMinutes, maxFDPMinutes),
     compliant |-> Compliant(currentFDPMinutes, maxFDPMinutes)]

checkCurrentFlightTime(currentFlightMinutes, isAugmented) ==
    LET limit == IF isAugmented THEN FLIGHT_TIME_AUGMENTED ELSE FLIGHT_TIME_SINGLE_DUTY
    IN  [current |-> currentFlightMinutes,
         limit |-> limit,
         remaining |-> limit - currentFlightMinutes,
         status |-> getStatus(currentFlightMinutes, limit),
         compliant |-> Compliant(currentFlightMinutes, limit),
         crewType |-> IF isAugmented THEN "augmented" ELSE "single"]

getCheckName(check) ==
    IF Get(check, "periodDays", 0) = 7 THEN "7-Day Duty"
    ELSE IF Get(check, "periodDays", 0) = 28 /\ check.limit = DUTY_28_DAY THEN "28-Day Duty"
    ELSE IF Get(check, "periodDays", 0) = 28 /\ check.limit = FLIGHT_TIME_28_DAY
         THEN "28-Day Flight Time"
    ELSE IF Get(check, "periodDays", 0) = 365 THEN "Annual Flight Time"
    ELSE IF "crewType" \in DOMAIN check THEN "Current Flight Time"
    ELSE "FDP"

\* The checks that runAllChecks aggregates: allChecks, without the nulls
AllChecks(checks) ==
    SelectSeq(<<checks.duty7Day, checks.duty28Day, checks.flightTime28Day,
                checks.currentFDP, checks.currentFlightTime>>,
              LAMBDA c : c # null)

\* runAllChecks(dutyRecords, currentDuty) at the instant now in the local zone
runAllChecks(dutyRecords, currentDuty, now, zone) ==
    LET checks ==
            [duty7Day |-> check7DayDuty(dutyRecords, now, zone),
             duty28Day |-> check28DayDuty(dutyRecords, now, zone),
             flightTime28Day |-> check28DayFlightTime(dutyRecords, now, zone),
             flightTime365Day |-> check365DayFlightTime(dutyRecords, now, zone),
             currentFDP |->
                 IF /\ currentDuty # null
                    /\ "elapsedFDP" \in DOMAIN currentDuty
                    /\ "maxFDP" \in DOMAIN currentDuty
                 THEN checkCurrentFDP(currentDuty.elapsedFDP, currentDuty.maxFDP)
                 ELSE null,
             currentFlightTime |->
                 IF currentDuty # null /\ "elapsedFlightTime" \in DOMAIN currentDuty
                 THEN checkCurrentFlightTime(currentDuty.elapsedFlightTime,
                                             Get(currentDuty, "isAugmented", FALSE))
                 ELSE null]
        allChecks == AllChecks(checks)
        nonCompliant == SelectSeq(allChecks, LAMBDA c : ~c.compliant)
        violations ==
            [i \in 1..Len(nonCompliant) |->
                [type |-> getCheckName(nonCompliant[i]),
                 current |-> nonCompliant[i].current,
                 limit |-> nonCompliant[i].limit]]
        inWarning == SelectSeq(allChecks, LAMBDA c : c.status = STATUS.WARNING)
        warnings ==
            [i \in 1..Len(inWarning) |->
                [type |-> getCheckName(inWarning[i]),
                 remaining |-> inWarning[i].remaining]]
        allCompliant == \A i \in 1..Len(allChecks) : allChecks[i].compliant
        someDanger == \E i \in 1..Len(allChecks) : allChecks[i].status = STATUS.DANGER
    IN  [duty7Day |-> checks.duty7Day,
         duty28Day |-> checks.duty28Day,
         flightTime28Day |-> checks.flightTime28Day,
         flightTime365Day |-> checks.flightTime365Day,
         currentFDP |-> checks.currentFDP,
         currentFlightTime |-> checks.currentFlightTime,
         overallStatus |->
             IF ~allCompliant THEN STATUS.EXCEEDED
             ELSE IF Len(warnings) > 0 \/ someDanger
                  THEN (IF someDanger THEN STATUS.DANGER ELSE STATUS.WARNING)
                  ELSE STATUS.GOOD,
         allCompliant |-> allCompliant,
         warnings |-> warnings,
         violations |-> violations]

\* The inputs of getStatus: the limits of LIMITS and the values of the FDP
\* table, each with the totals around its thresholds; two limits with every
\* total up to the limit and beyond
NearThreshold == 3

LimitInputs ==
    {FLIGHT_TIME_SINGLE_DUTY, FLIGHT_TIME_AUGMENTED, FLIGHT_TIME_28_DAY,
     FLIGHT_TIME_365_DAY, DUTY_7_DAY, DUTY_28_DAY}
    \cup {MIN_FDP_ABSOLUTE + 30 * k : k \in 0..10}

FullRangeLimits == {FLIGHT_TIME_SINGLE_DUTY, 600}

CurrentInputs(limit) ==
    {0, 2 * limit}
    \cup UNION {Max(0, t - NearThreshold)..(t + NearThreshold) :
                    t \in {(WARNING_THRESHOLD * limit) \div 100,
                           (DANGER_THRESHOLD * limit) \div 100,
                           limit}}
    \cup (IF limit \in FullRangeLimits THEN 0..(limit + NearThreshold) ELSE {})

GetStatusInputs ==
    UNION {{[op |-> "getStatus", done |-> FALSE, current |-> current,
             limit |-> limit, result |-> nullStr] :
                current \in CurrentInputs(limit)} : limit \in LimitInputs}

GetStatus ==
    /\ call.op = "getStatus"
    /\ ~call.done
    /\ call' = [call EXCEPT !.done = TRUE,
                            !.result = getStatus(call.current, call.limit)]
    /\ UNCHANGED storeVars

\* The inputs of runAllChecks.  The local day of the call is Today; the zone
\* is west of, at, or east of UTC; the records are dated a number of days
\* before Today and come as getDutyRecords gives them, latest first.
Today == 400

MaxRecords == 2

TzOffsets == {-300, 0}

\* The local time of day of the call, in minutes
LocalTimes == {0, 720}

DateOffsets == {0, 7, 8, 28, 29, 365, 366}

\* <<dutyMinutes, flightMinutes>> of a record
MinuteInputs ==
    {<<600, 300>>, <<3060, 5712>>, <<3600, 0>>, <<3601, 6721>>,
     <<0, 51000>>, <<0, 60001>>}

RecordInputs ==
    {[date |-> Today - off, dutyMinutes |-> mm[1], flightMinutes |-> mm[2]] :
        off \in DateOffsets, mm \in MinuteInputs}

LatestFirst(records) ==
    \A i \in 1..(Len(records) - 1) : records[i].date >= records[i + 1].date

RecordSeqs(n) ==
    UNION {{records \in [1..k -> RecordInputs] : LatestFirst(records)} : k \in 0..n}

CurrentDutyInputs ==
    LET fdp == {<<>>} \cup {[elapsedFDP |-> e, maxFDP |-> 600] :
                                e \in {0, 510, 570, 600, 601}}
        flight == {<<>>}
                  \cup {[elapsedFlightTime |-> e] : e \in {0, 408, 480, 481}}
                  \cup {[elapsedFlightTime |-> e, isAugmented |-> TRUE] :
                            e \in {480, 663, 780, 781}}
    IN  {Spread(a, b) : a \in fdp, b \in flight} \ {<<>>}

RunAllChecksInputs ==
    {[op |-> "runAllChecks", done |-> FALSE, dutyRecords |-> records,
      currentDuty |-> currentDuty, result |-> null] :
        records \in RecordSeqs(MaxRecords), currentDuty \in {null} \cup CurrentDutyInputs}

\* The instants and zones of the calls: local midnight and local noon of
\* Today in each zone
ComplianceClocks ==
    {<<Today * 1440 + t - zone, zone>> : t \in LocalTimes, zone \in TzOffsets}

RunAllChecks ==
    /\ call.op = "runAllChecks"
    /\ ~call.done
    /\ call' = [call EXCEPT
                    !.done = TRUE,
                    !.result = runAllChecks(call.dutyRecords, call.currentDuty, clock, tz)]
    /\ UNCHANGED storeVars

-----------------------------------------------------------------------------
(* js/storage.js: the duty records *)

MAX_RECORDS == 500

\* StorageManager's own timeToMinutes: no validation
storage_timeToMinutes(timeStr) ==
    IF timeStr = <<>> THEN 0
    ELSE IF Len(timeStr) < 2 THEN NaN
    ELSE IF isNaN(timeStr[1]) \/ isNaN(timeStr[2]) THEN NaN
    ELSE timeStr[1] * 60 + timeStr[2]

\* let dutyMinutes = releaseMinutes - reportMinutes;
\* if (dutyMinutes < 0) dutyMinutes += 1440;
NoWrapDutyMinutes(reportMinutes, releaseMinutes) == releaseMinutes - reportMinutes

DutyMinutes(reportMinutes, releaseMinutes) ==
    IF isNaN(reportMinutes) \/ isNaN(releaseMinutes) THEN NaN
    ELSE LET dutyMinutes == releaseMinutes - reportMinutes
         IN  IF dutyMinutes < 0 THEN dutyMinutes + 1440 ELSE dutyMinutes

\* Math.round((parseFloat(flightTime) || 0) * 60), flightTime in tenths of
\* an hour
FlightMinutes(flightTime) == IF isNaN(flightTime) THEN 0 ELSE 6 * flightTime

\* records.sort((a, b) => new Date(b.date) - new Date(a.date)): a stable
\* sort, latest date first
RECURSIVE InsertByDate(_, _)
InsertByDate(sorted, record) ==
    IF sorted = <<>> THEN <<record>>
    ELSE IF Head(sorted).date >= record.date
         THEN <<Head(sorted)>> \o InsertByDate(Tail(sorted), record)
         ELSE <<record>> \o sorted

RECURSIVE SortByDateDesc(_)
SortByDateDesc(records) ==
    IF records = <<>> THEN <<>>
    ELSE InsertByDate(SortByDateDesc(SubSeq(records, 1, Len(records) - 1)),
                      records[Len(records)])

getDutyRecords ==
    IF ~storageAvailable THEN <<>> ELSE SortByDateDesc(acp700_duty_records)

\* What localStorage.setItem does with the record list: it takes it ("ok"),
\* it throws QuotaExceededError and takes the first half of it ("quota"), or
\* it throws for both ("throws")
SaveOutcomes == {"ok", "quota", "throws"}

\* saveDutyRecords(records): whether it reports success, and what is stored
saveDutyRecords(records, outcome) ==
    IF ~storageAvailable
    THEN [success |-> FALSE, stored |-> acp700_duty_records]
    ELSE IF outcome = "ok"
    THEN [success |-> TRUE, stored |-> SubSeq(records, 1, Min(Len(records), MAX_RECORDS))]
    ELSE IF outcome = "quota"
    THEN [success |-> TRUE, stored |-> SubSeq(records, 1, Len(records) \div 2)]
    ELSE [success |-> FALSE, stored |-> acp700_duty_records]

\* records.findIndex(r => r.id === id), 0 for -1
RECURSIVE findIndexFrom(_, _, _)
findIndexFrom(records, id, i) ==
    IF i > Len(records) THEN 0
    ELSE IF records[i].id = id THEN i
    ELSE findIndexFrom(records, id, i + 1)

findIndex(records, id) == findIndexFrom(records, id, 1)

\* !record.date || !record.reportTime || !record.releaseTime
MissingRequired(record) ==
    \/ "date" \notin DOMAIN record
    \/ Get(record, "reportTime", <<>>) = <<>>
    \/ Get(record, "releaseTime", <<>>) = <<>>

\* generateId(): an identifier that no stored record has.  nextId is the
\* least such number, so that a run needs no more identifiers than records.
RECURSIVE LeastUnused(_, _)
LeastUnused(records, n) ==
    IF \E i \in 1..Len(records) : records[i].id = n
    THEN LeastUnused(records, n + 1)
    ELSE n

generateId(records) == LeastUnused(records, 1)

\* addDutyRecord(record); notes and createdAt are stored and never read
AddDutyRecord(record, outcome) ==
    IF MissingRequired(record)
    THEN /\ call' = [op |-> "addDutyRecord", done |-> TRUE, success |-> FALSE,
                     error |-> "Missing required fields (date, reportTime, releaseTime)"]
         /\ UNCHANGED storeVars
    ELSE
    LET normalizedRecord ==
            [id |-> nextId,
             date |-> record.date,
             reportTime |-> record.reportTime,
             releaseTime |-> record.releaseTime,
             dutyMinutes |-> DutyMinutes(storage_timeToMinutes(record.reportTime),
                                         storage_timeToMinutes(record.releaseTime)),
             flightMinutes |-> FlightMinutes(Get(record, "flightTime", NaN)),
             sectors |-> IF Get(record, "sectors", 0) = 0 THEN 1 ELSE record.sectors]
        saved == saveDutyRecords(<<normalizedRecord>> \o getDutyRecords, outcome)
    IN  /\ acp700_duty_records' = saved.stored
        /\ nextId' = generateId(saved.stored)
        /\ call' = [op |-> "addDutyRecord", done |-> TRUE, success |-> saved.success,
                    id |-> normalizedRecord.id,
                    error |-> IF saved.success THEN nullStr ELSE "Failed to save record"]
        /\ UNCHANGED <<storageAvailable, acp700_active_duty, clock, tz, state, timers>>

\* updates.reportTime || updates.releaseTime
TimesChanged(updates) ==
    \/ Get(updates, "reportTime", <<>>) # <<>>
    \/ Get(updates, "releaseTime", <<>>) # <<>>

\* updateDutyRecord(id, updates); updatedAt is stored and never read
UpdateDutyRecord(id, updates, outcome) ==
    LET records == getDutyRecords
        index == findIndex(records, id)
    IN  IF index = 0
        THEN /\ call' = [op |-> "updateDutyRecord", done |-> TRUE, success |-> FALSE,
                         error |-> "Record not found"]
             /\ UNCHANGED storeVars
        ELSE
        LET merged == Spread(records[index], updates)
            retimed ==
                IF TimesChanged(updates)
                THEN [merged EXCEPT !.dutyMinutes =
                         DutyMinutes(storage_timeToMinutes(merged.reportTime),
                                     storage_timeToMinutes(merged.releaseTime))]
                ELSE merged
            updated ==
                IF "flightTime" \in DOMAIN updates
                THEN [retimed EXCEPT !.flightMinutes = FlightMinutes(updates.flightTime)]
                ELSE retimed
            saved == saveDutyRecords([records EXCEPT ![index] = updated], outcome)
        IN  /\ acp700_duty_records' = saved.stored
            /\ call' = [op |-> "updateDutyRecord", done |-> TRUE,
                        success |-> saved.success,
                        error |-> IF saved.success THEN nullStr
                                  ELSE "Failed to update record"]
            /\ nextId' = generateId(saved.stored)
            /\ UNCHANGED <<storageAvailable, acp700_active_duty, clock, tz, state, timers>>

\* A splice that takes the rest of the list with the record
SpliceToEnd(records, index) == SubSeq(records, 1, index - 1)

\* records.splice(index, 1)
Splice(records, index) ==
    SubSeq(records, 1, index - 1) \o SubSeq(records, index + 1, Len(records))

\* deleteDutyRecord(id)
DeleteDutyRecord(id, outcome) ==
    LET records == getDutyRecords
        index == findIndex(records, id)
    IN  IF index = 0
        THEN /\ call' = [op |-> "deleteDutyRecord", done |-> TRUE, success |-> FALSE,
                         error |-> "Record not found"]
             /\ UNCHANGED storeVars
        ELSE
        LET saved == saveDutyRecords(Splice(records, index), outcome)
        IN  /\ acp700_duty_records' = saved.stored
            /\ nextId' = generateId(saved.stored)
            /\ call' = [op |-> "deleteDutyRecord", done |-> TRUE, success |-> saved.success,
                        error |-> IF saved.success THEN nullStr
                                  ELSE "Failed to delete record"]
            /\ UNCHANGED <<storageAvailable, acp700_active_duty, clock, tz, state, timers>>

\* clearAllRecords()
ClearAllRecords ==
    /\ acp700_duty_records' = IF storageAvailable THEN <<>> ELSE acp700_duty_records
    /\ nextId' = IF storageAvailable THEN 1 ELSE nextId
    /\ call' = [op |-> "clearAllRecords", done |-> TRUE, success |-> storageAvailable]
    /\ UNCHANGED <<storageAvailable, acp700_active_duty, clock, tz, state, timers>>

\* The browser takes localStorage away (private mode, a full disk) or gives
\* it back
SetStorageAvailable ==
    /\ storageAvailable' = ~storageAvailable
    /\ call' = [op |-> "environment", done |-> TRUE]
    /\ UNCHANGED <<acp700_active_duty, acp700_duty_records, nextId, clock, tz, state, timers>>

\* The inputs of the record operations
MaxStored == 2

\* 1.5 hours
FlightTimeInputs == {15}

\* A day duty today, an overnight duty yesterday, and a form with no release
\* time
AddInputs ==
    {[date |-> Today, reportTime |-> <<8, 0>>, releaseTime |-> <<10, 0>>,
      flightTime |-> f] : f \in FlightTimeInputs}
    \cup {[date |-> Today - 1, reportTime |-> <<23, 0>>, releaseTime |-> <<1, 0>>,
           flightTime |-> f] : f \in FlightTimeInputs}
    \cup {[date |-> Today, reportTime |-> <<8, 0>>, releaseTime |-> <<>>,
           flightTime |-> f] : f \in FlightTimeInputs}

\* The report time only, the flight time only, and dutyMinutes itself
UpdateInputs ==
    {[reportTime |-> <<23, 0>>], [flightTime |-> 0], [dutyMinutes |-> 5]}

AddRecord ==
    \E record \in AddInputs, outcome \in SaveOutcomes :
        /\ Len(acp700_duty_records) < MaxStored
        /\ AddDutyRecord(record, outcome)

UpdateRecord ==
    \E id \in 1..(MaxStored + 1), updates \in UpdateInputs, outcome \in SaveOutcomes :
        UpdateDutyRecord(id, updates, outcome)

\* What localStorage.setItem does with a record list that is shorter than
\* the stored one: the write frees space, so the quota is not exceeded
RemovalOutcomes == {"ok", "throws"}

DeleteRecord ==
    \E id \in 1..(MaxStored + 1), outcome \in RemovalOutcomes : DeleteDutyRecord(id, outcome)

-----------------------------------------------------------------------------
(* storage.js: the active duty session *)

\* getActiveDuty(): the stored session, or null when there is none or
\* localStorage cannot be used
getActiveDuty == IF storageAvailable THEN acp700_active_duty ELSE null

\* a || b on numbers: 0, NaN and a missing value are falsy
OrNumber(a, b) == IF a = 0 \/ isNaN(a) \/ a = nullNum THEN b ELSE a

\* a || b on time strings: a missing value and the empty string are falsy
OrTime(a, b) == IF a = <<>> THEN b ELSE a

\* toLocaleTimeString('en-US', {hour: '2-digit', minute: '2-digit',
\* hour12: false}) of an instant, as <<hours, minutes>> of the local time.
\* The hour after midnight is rendered "00" by some engines and "24" by
\* others.
toLocaleTimeString(instant, zone) ==
    LET local == (instant + zone) % 1440
        hours == local \div 60
        minutes == local % 60
    IN  {<<hours, minutes>>} \cup (IF hours = 0 THEN {<<24, minutes>>} ELSE {})

\* toISOString().split('T')[0]: the UTC day of an instant
UTCDate(instant) == instant \div 1440

\* What localStorage.setItem does with the session
SetItemOutcomes == {"ok", "throws"}

\* A session may not be started over another one
EverStartable(currentDuty) == FALSE

\* if (currentDuty) in startDuty
AlreadyOnDuty(currentDuty) == currentDuty # null

\* startDuty(dutyInfo)
startDuty(dutyInfo, outcome) ==
    IF ~storageAvailable
    THEN /\ call' = [op |-> "startDuty", done |-> TRUE, success |-> FALSE,
                     error |-> "Storage not available"]
         /\ UNCHANGED storeVars
    ELSE IF AlreadyOnDuty(getActiveDuty)
    THEN /\ call' = [op |-> "startDuty", done |-> TRUE, success |-> FALSE,
                     error |-> "Already on duty. End current duty first."]
         /\ UNCHANGED storeVars
    ELSE \E rendered \in toLocaleTimeString(clock, tz) :
        LET activeDuty ==
                [startTime |-> Get(dutyInfo, "startTime", clock),
                 reportTime |-> OrTime(Get(dutyInfo, "reportTime", <<>>), rendered),
                 sectors |-> OrNumber(Get(dutyInfo, "sectors", nullNum), 2),
                 acclimatized |-> Get(dutyInfo, "acclimatized", TRUE) # FALSE,
                 maxFdpMinutes |-> OrNumber(Get(dutyInfo, "maxFdpMinutes", nullNum), 840),
                 date |-> UTCDate(clock)]
        IN  /\ acp700_active_duty' =
                   IF outcome = "ok" THEN activeDuty ELSE acp700_active_duty
            /\ call' = [op |-> "startDuty", done |-> TRUE,
                        success |-> outcome = "ok",
                        error |-> IF outcome = "ok" THEN nullStr
                                  ELSE "Failed to save active duty"]
            /\ UNCHANGED <<storageAvailable, acp700_duty_records, nextId, clock, tz, state, timers>>

\* A result that reports success where there is no session
OnDutyResult == [success |-> TRUE, error |-> nullStr]

\* { success: false, error: 'Not currently on duty' }
NotOnDutyResult == [success |-> FALSE, error |-> "Not currently on duty"]

\* updateActiveDuty(updates)
updateActiveDuty(updates, outcome) ==
    LET currentDuty == getActiveDuty
    IN  IF currentDuty = null
        THEN /\ call' = [op |-> "updateActiveDuty", done |-> TRUE,
                         success |-> NotOnDutyResult.success,
                         error |-> NotOnDutyResult.error]
             /\ UNCHANGED storeVars
        ELSE
        LET updatedDuty == Spread(currentDuty, updates)
        IN  /\ acp700_active_duty' =
                   IF outcome = "ok" THEN updatedDuty ELSE acp700_active_duty
            /\ call' = [op |-> "updateActiveDuty", done |-> TRUE,
                        success |-> outcome = "ok",
                        error |-> IF outcome = "ok" THEN nullStr
                                  ELSE "Failed to update active duty"]
            /\ UNCHANGED <<storageAvailable, acp700_duty_records, nextId, clock, tz, state, timers>>

\* A record draft that takes nothing from the session
DraftOfCaller(currentDuty, releaseTime, endInfo) ==
    [date |-> UTCDate(clock),
     reportTime |-> releaseTime,
     releaseTime |-> releaseTime,
     flightTime |-> Get(endInfo, "flightTime", nullNum),
     sectors |-> 2]

\* const dutyRecord = {...} in endDuty
dutyRecord(currentDuty, releaseTime, endInfo) ==
    [date |-> currentDuty.date,
     reportTime |-> currentDuty.reportTime,
     releaseTime |-> releaseTime,
     flightTime |-> OrNumber(Get(endInfo, "flightTime", nullNum), 0),
     sectors |-> currentDuty.sectors]

\* endDuty(endInfo); removeItem does not fail in a store that can be used
endDuty(endInfo) ==
    LET currentDuty == getActiveDuty
    IN  IF currentDuty = null
        THEN /\ call' = [op |-> "endDuty", done |-> TRUE,
                         success |-> NotOnDutyResult.success,
                         error |-> NotOnDutyResult.error]
             /\ UNCHANGED storeVars
        ELSE \E releaseTime \in toLocaleTimeString(Get(endInfo, "endTime", clock), tz) :
            /\ acp700_active_duty' = null
            /\ call' = [op |-> "endDuty", done |-> TRUE, success |-> TRUE,
                        error |-> nullStr,
                        endInfo |-> endInfo,
                        duty |-> currentDuty,
                        record |-> dutyRecord(currentDuty, releaseTime, endInfo),
                        shouldLog |-> Get(endInfo, "logDuty", TRUE) # FALSE]
            /\ UNCHANGED <<storageAvailable, acp700_duty_records, nextId, clock, tz, state, timers>>

\* A cancel that takes the duty records with the session
CancelEverything ==
    /\ acp700_active_duty' = IF storageAvailable THEN null ELSE acp700_active_duty
    /\ acp700_duty_records' = IF storageAvailable THEN <<>> ELSE acp700_duty_records
    /\ call' = [op |-> "cancelActiveDuty", done |-> TRUE, success |-> storageAvailable]
    /\ UNCHANGED <<storageAvailable, nextId, clock, tz, state, timers>>

\* cancelActiveDuty()
cancelActiveDuty ==
    /\ acp700_active_duty' = IF storageAvailable THEN null ELSE acp700_active_duty
    /\ call' = [op |-> "cancelActiveDuty", done |-> TRUE, success |-> storageAvailable]
    /\ UNCHANGED <<storageAvailable, acp700_duty_records, nextId, clock, tz, state, timers>>

\* The inputs of the session operations
TickMinutes == 30

MaxTicks == 2

\* 23:30 UTC, so that the run passes midnight
StartClock == Today * 1440 + 1410

\* Nothing given; what the Start Duty button gives; values that are falsy
StartInputs ==
    {<<>>,
     [reportTime |-> <<8, 0>>, sectors |-> 4, maxFdpMinutes |-> 810, acclimatized |-> TRUE],
     [sectors |-> 0, maxFdpMinutes |-> NaN, acclimatized |-> FALSE]}

\* What a change of the sectors selector gives
SessionUpdateInputs == {[sectors |-> 6, maxFdpMinutes |-> 780]}

\* Nothing given; 1.5 hours to be logged; no flight time and not to be logged
EndInputs ==
    {<<>>,
     [flightTime |-> 15, logDuty |-> TRUE],
     [flightTime |-> 0, logDuty |-> FALSE]}

DoStartDuty ==
    \E dutyInfo \in StartInputs, outcome \in SetItemOutcomes : startDuty(dutyInfo, outcome)

DoUpdateActiveDuty ==
    \E updates \in SessionUpdateInputs, outcome \in SetItemOutcomes :
        updateActiveDuty(updates, outcome)

DoEndDuty == \E endInfo \in EndInputs : endDuty(endInfo)

DoCancelActiveDuty == cancelActiveDuty

\* Time passes
Tick ==
    /\ clock < StartClock + MaxTicks * TickMinutes
    /\ clock' = clock + TickMinutes
    /\ call' = [op |-> "environment", done |-> TRUE]
    /\ UNCHANGED <<storageAvailable, acp700_active_duty, acp700_duty_records, nextId, tz,
                 state, timers>>

-----------------------------------------------------------------------------
(* The store as the page finds it on a first visit *)

\* const state = {currentDuty: null, ..., initialized: false,
\* dutyTimerInterval: null}; dutyTimerInterval is TRUE when it holds the
\* handle of an interval
InitialState == [currentDuty |-> null, initialized |-> FALSE, dutyTimerInterval |-> FALSE]

InitStore ==
    /\ storageAvailable = TRUE
    /\ acp700_active_duty = null
    /\ acp700_duty_records = <<>>
    /\ nextId = 1
    /\ state = InitialState
    /\ timers = 0

InitFDP == InitStore /\ clock = 0 /\ tz = 0 /\ call \in CalculateInputs

NextFDP == Calculate

SpecFDP == InitFDP /\ [][NextFDP]_vars

-----------------------------------------------------------------------------
(* Claims on the FDP calculator *)

ValidCalculateCall ==
    /\ call.op = "calculate"
    /\ call.done
    /\ call.reportTime \in ValidTimes
    /\ call.sectors \in {10 * n : n \in 1..10}

\* C1: for every valid report time (00:00-23:59), every sector count 1..10 and
\* either acclimatization status, calculate succeeds and its maxFDP is between
\* 540 and 840 minutes, both included.
C1_MaxFDPWithinAbsoluteLimits ==
    ValidCalculateCall =>
        /\ call.result.success
        /\ call.result.maxFDP >= 540
        /\ call.result.maxFDP <= 840

\* The deduction would take the table value under the floor: 22:30, 6
\* sectors, unacclimatized is 540 - 60, returned as 540.
C1_Witness ==
    /\ ValidCalculateCall
    /\ call.reportTime = <<22, 30>>
    /\ call.sectors = 60
    /\ call.acclimatizationStatus = "unacclimatized"
    /\ call.result.maxFDP = 540

-----------------------------------------------------------------------------
(* The compliance checker, call by call *)

\* Every record list is checked in every zone and at both times of the day;
\* the current-duty checks, which read no date, at noon UTC with at most one
\* record
InitCompliance ==
    /\ InitStore
    /\ \E ct \in ComplianceClocks : clock = ct[1] /\ tz = ct[2]
    /\ call \in GetStatusInputs \cup RunAllChecksInputs
    /\ call.op = "getStatus" => clock = Today * 1440 + 720 /\ tz = 0
    /\ (call.op = "runAllChecks" /\ call.currentDuty # null) =>
            /\ clock = Today * 1440 + 720
            /\ tz = 0
            /\ Len(call.dutyRecords) <= 1

NextCompliance == GetStatus \/ RunAllChecks

SpecCompliance == InitCompliance /\ [][NextCompliance]_vars

-----------------------------------------------------------------------------
(* Claims on the compliance checker *)

GetStatusCall == call.op = "getStatus" /\ call.done

\* C7: for every limit and every total from 0 up, the status is EXCEEDED when
\* current >= limit, DANGER when 0.95 * limit <= current < limit, WARNING when
\* 0.85 * limit <= current < 0.95 * limit and GOOD below 0.85 * limit.
C7_StatusBands ==
    GetStatusCall =>
        LET c == call.current
            l == call.limit
        IN  /\ (call.result = "exceeded") <=> (c >= l)
            /\ (call.result = "danger") <=> (95 * l <= 100 * c /\ c < l)
            /\ (call.result = "warning") <=> (85 * l <= 100 * c /\ 100 * c < 95 * l)
            /\ (call.result = "good") <=> (100 * c < 85 * l)

\* A total of exactly 0.85 * limit (3060 of 3600) is classified WARNING.
C7_Witness ==
    /\ GetStatusCall
    /\ call.limit = 3600
    /\ call.current = 3060
    /\ call.result = "warning"

RunAllChecksCall == call.op = "runAllChecks" /\ call.done

\* The records of a call dated from `days` days before the local day of the
\* call up to that day, both included
RecordsOfWindow(days) ==
    LET today == LocalDay(clock, tz)
    IN  SelectSeq(call.dutyRecords,
                  LAMBDA r : today - days <= r.date /\ r.date <= today)

\* C8: for each window of N days (7, 28, 365) a record contributes to the
\* window total exactly when its date is between N days before today and
\* today, both ends included.
C8_WindowInclusive ==
    RunAllChecksCall =>
        LET r == call.result
        IN  /\ r.duty7Day.recordCount = Len(RecordsOfWindow(7))
            /\ r.duty7Day.current = sumDutyTime(RecordsOfWindow(7))
            /\ r.duty28Day.recordCount = Len(RecordsOfWindow(28))
            /\ r.duty28Day.current = sumDutyTime(RecordsOfWindow(28))
            /\ r.flightTime28Day.current = sumFlightTime(RecordsOfWindow(28))
            /\ r.flightTime365Day.recordCount = Len(RecordsOfWindow(365))
            /\ r.flightTime365Day.current = sumFlightTime(RecordsOfWindow(365))

\* The checks a report holds: the four windows and the current-duty checks
\* that were produced
ProducedChecks(r) ==
    SelectSeq(<<r.duty7Day, r.duty28Day, r.flightTime28Day, r.flightTime365Day,
                r.currentFDP, r.currentFlightTime>>,
              LAMBDA c : c # null)

TypesOf(list) == {list[i].type : i \in 1..Len(list)}

\* C9: every produced check whose total is above its limit is listed in
\* violations, makes allCompliant false and makes overallStatus EXCEEDED.
C9_OverLimitIsViolation ==
    RunAllChecksCall =>
        LET r == call.result
            produced == ProducedChecks(r)
        IN  \A i \in 1..Len(produced) :
                produced[i].current > produced[i].limit =>
                    /\ getCheckName(produced[i]) \in TypesOf(r.violations)
                    /\ ~r.allCompliant
                    /\ r.overallStatus = "exceeded"

\* C10: overallStatus is EXCEEDED if violations is not empty, otherwise DANGER
\* if a check has status DANGER, otherwise WARNING if a check has status
\* WARNING, otherwise GOOD; warnings holds exactly the checks of status WARNING.
C10_OverallStatus ==
    RunAllChecksCall =>
        LET r == call.result
            produced == ProducedChecks(r)
            Some(status) == \E i \in 1..Len(produced) : produced[i].status = status
        IN  /\ r.overallStatus =
                   IF Len(r.violations) > 0 THEN "exceeded"
                   ELSE IF Some("danger") THEN "danger"
                   ELSE IF Some("warning") THEN "warning"
                   ELSE "good"
            /\ TypesOf(r.warnings) =
                   {getCheckName(produced[i]) :
                        i \in {j \in 1..Len(produced) : produced[j].status = "warning"}}

-----------------------------------------------------------------------------
(* The record store, call after call *)

InitRecords == InitStore /\ clock = Today * 1440 + 720 /\ tz = 0 /\ call = NoCall

NextRecords ==
    \/ AddRecord
    \/ UpdateRecord
    \/ DeleteRecord
    \/ ClearAllRecords
    \/ SetStorageAvailable

SpecRecords == InitRecords /\ [][NextRecords]_vars

-----------------------------------------------------------------------------
(* Claims on the record store *)

\* (releaseTime - reportTime) mod 1440 of a stored record
SpanOf(record) ==
    (storage_timeToMinutes(record.releaseTime)
        - storage_timeToMinutes(record.reportTime)) % 1440

\* C5: after any sequence of addDutyRecord, updateDutyRecord and
\* deleteDutyRecord calls every stored record has
\* dutyMinutes = (releaseTime - reportTime) mod 1440, whatever fields the
\* updates carried.
C5_DutyMinutesDerived ==
    \A i \in 1..Len(acp700_duty_records) :
        acp700_duty_records[i].dutyMinutes = SpanOf(acp700_duty_records[i])

-----------------------------------------------------------------------------
(* The session operations of storage.js, with records being logged and time
   passing *)

Init == InitStore /\ clock = StartClock /\ tz \in TzOffsets /\ call = NoCall

Next ==
    \/ DoStartDuty
    \/ DoUpdateActiveDuty
    \/ DoEndDuty
    \/ DoCancelActiveDuty
    \/ AddRecord
    \/ Tick
    \/ SetStorageAvailable

Spec == Init /\ [][Next]_vars

-----------------------------------------------------------------------------
(* Claims on the session *)

\* The step is a call of the operation
Called(op) == call'.op = op /\ vars' # vars

\* C2: at most one session is active: a startDuty issued while a session is
\* active returns success = false and leaves the stored session (start time,
\* report time, sectors, max FDP, date) exactly as it was.
C2_StartWhileActiveRefused ==
    [][(Called("startDuty") /\ getActiveDuty # null)
          => /\ call'.success = FALSE
             /\ acp700_active_duty' = acp700_active_duty]_vars

\* A startDuty has been refused for the session that is still stored
C2_Witness ==
    /\ call.op = "startDuty"
    /\ call.success = FALSE
    /\ call.error = "Already on duty. End current duty first."
    /\ acp700_active_duty # null
    /\ acp700_active_duty.sectors = 6

\* C3: for any active session endDuty succeeds, leaves no active session
\* (getActiveDuty returns none, and a startDuty that follows is not refused
\* for a session and succeeds when the store takes the write), and returns a
\* record draft whose date, reportTime and sectors are those of the ended
\* session and whose flightTime is the caller's value, 0 when omitted.
C3_EndDutyClearsAndDrafts ==
    [][/\ (Called("endDuty") /\ getActiveDuty # null)
            => /\ call'.success = TRUE
               /\ getActiveDuty' = null
               /\ call'.record.date = acp700_active_duty.date
               /\ call'.record.reportTime = acp700_active_duty.reportTime
               /\ call'.record.sectors = acp700_active_duty.sectors
               /\ call'.record.flightTime = Get(call'.endInfo, "flightTime", 0)
       /\ (call.op = "endDuty" /\ call.success /\ Called("startDuty"))
            => /\ call'.error # "Already on duty. End current duty first."
               /\ call'.error # "Failed to save active duty" => call'.success
      ]_vars

\* endDuty has ended a session whose sectors had been changed, with no flight
\* time given
C3_Witness ==
    /\ call.op = "endDuty"
    /\ call.success = TRUE
    /\ acp700_active_duty = null
    /\ call.duty.sectors = 6
    /\ call.record.sectors = 6
    /\ "flightTime" \notin DOMAIN call.endInfo
    /\ call.record.flightTime = 0

\* C4: when no session is active, endDuty and updateActiveDuty each return a
\* failure result (success = false with an error message) and change
\* nothing: no session is created and no duty record is added.
C4_NoSessionFailsAndChangesNothing ==
    [][((Called("endDuty") \/ Called("updateActiveDuty")) /\ getActiveDuty = null)
          => /\ call'.success = FALSE
             /\ call'.error # nullStr
             /\ acp700_active_duty' = acp700_active_duty
             /\ acp700_duty_records' = acp700_duty_records]_vars

\* updateActiveDuty has failed for want of a session, with a record stored
C4_Witness ==
    /\ call.op = "updateActiveDuty"
    /\ call.success = FALSE
    /\ call.error = "Not currently on duty"
    /\ acp700_active_duty = null
    /\ Len(acp700_duty_records) > 0


-----------------------------------------------------------------------------
(* addDutyRecord over the valid report and release times *)

\* Every hour of the day, at the start, the middle and the last minute
TimeInputs == {<<hours, minutes>> : hours \in 0..23, minutes \in {0, 30, 59}}

LogDutyInputs ==
    {[op |-> "addDutyRecord", done |-> FALSE,
      record |-> [date |-> Today, reportTime |-> reportTime,
                  releaseTime |-> releaseTime, flightTime |-> 15]] :
        reportTime \in TimeInputs, releaseTime \in TimeInputs}

LogDuty ==
    /\ call.op = "addDutyRecord"
    /\ ~call.done
    /\ \E outcome \in SaveOutcomes : AddDutyRecord(call.record, outcome)

InitLogDuty ==
    InitStore /\ clock = Today * 1440 + 720 /\ tz = 0 /\ call \in LogDutyInputs

NextLogDuty == LogDuty

SpecLogDuty == InitLogDuty /\ [][NextLogDuty]_vars

\* C6: for every pair of valid report and release times addDutyRecord stores
\* dutyMinutes = release - report when that is not negative and
\* release - report + 1440 otherwise, so dutyMinutes is always in 0..1439.
C6_OvernightWrap ==
    (call.op = "addDutyRecord" /\ call.done /\ call.success)
        => \A i \in 1..Len(acp700_duty_records) :
              LET stored == acp700_duty_records[i]
                  span == (stored.releaseTime[1] * 60 + stored.releaseTime[2])
                            - (stored.reportTime[1] * 60 + stored.reportTime[2])
              IN  stored.id = call.id
                    => /\ stored.dutyMinutes = IF span >= 0 THEN span ELSE span + 1440
                       /\ stored.dutyMinutes \in 0..1439

\* Report 23:00 and release 01:00 have been stored as 120 minutes
C6_Witness ==
    /\ call.op = "addDutyRecord"
    /\ call.done
    /\ call.success
    /\ Len(acp700_duty_records) = 1
    /\ acp700_duty_records[1].id = call.id
    /\ acp700_duty_records[1].reportTime = <<23, 0>>
    /\ acp700_duty_records[1].releaseTime = <<1, 0>>
    /\ acp700_duty_records[1].dutyMinutes = 120

-----------------------------------------------------------------------------
(* js/compliance.js: calculateAvailability *)

\* A comparison that lets the last of equal headrooms win
NotMoreAvailable(curr, min) == curr.available <= min.available

\* curr.available < min.available
LessAvailable(curr, min) == curr.available < min.available

\* availabilities.reduce((min, curr) => ... ? curr : min), from index i on
RECURSIVE ReduceMin(_, _, _)
ReduceMin(availabilities, min, i) ==
    IF i > Len(availabilities)
    THEN min
    ELSE ReduceMin(availabilities,
                   IF LessAvailable(availabilities[i], min)
                   THEN availabilities[i] ELSE min,
                   i + 1)

calculateAvailability(dutyRecords, now, zone) ==
    LET checks == runAllChecks(dutyRecords, null, now, zone)
        availabilities ==
            <<[type |-> "7-Day Duty", available |-> checks.duty7Day.remaining],
              [type |-> "28-Day Duty", available |-> checks.duty28Day.remaining],
              [type |-> "28-Day Flight Time",
               available |-> checks.flightTime28Day.remaining]>>
        mostRestrictive == ReduceMin(availabilities, availabilities[1], 2)
    IN  [maxAdditionalDuty |-> Max(0, mostRestrictive.available),
         limitingFactor |-> mostRestrictive.type,
         breakdown |-> availabilities]

\* Records of the last week, of the last four weeks only, and older ones
AvailabilityDates == {Today, Today - 10, Today - 40}

\* <<dutyMinutes, flightMinutes>>: totals that leave each headroom the
\* smallest in turn, that make two or all three of them equal, and one over
\* the limit
AvailabilityMinutes ==
    {<<3400, 0>>, <<11000, 0>>, <<0, 6000>>, <<7800, 0>>, <<10680, 6000>>,
     <<600, 3720>>, <<3700, 0>>, <<100, 3220>>}

AvailabilityRecords ==
    {[date |-> d, dutyMinutes |-> mm[1], flightMinutes |-> mm[2]] :
        d \in AvailabilityDates, mm \in AvailabilityMinutes}

AvailabilityInputs ==
    {[op |-> "calculateAvailability", done |-> FALSE, dutyRecords |-> records,
      result |-> null] :
        records \in UNION {{rs \in [1..k -> AvailabilityRecords] : LatestFirst(rs)} :
                              k \in 0..MaxRecords}}

CalculateAvailability ==
    /\ call.op = "calculateAvailability"
    /\ ~call.done
    /\ call' = [call EXCEPT
                    !.done = TRUE,
                    !.result = calculateAvailability(call.dutyRecords, clock, tz)]
    /\ UNCHANGED storeVars

InitAvailability ==
    /\ InitStore
    /\ \E ct \in ComplianceClocks : clock = ct[1] /\ tz = ct[2]
    /\ call \in AvailabilityInputs

NextAvailability == CalculateAvailability

SpecAvailability == InitAvailability /\ [][NextAvailability]_vars

\* The three headrooms of a finished call, in the order 7-Day Duty, 28-Day
\* Duty, 28-Day Flight Time
Headrooms ==
    LET checks == runAllChecks(call.dutyRecords, null, clock, tz)
    IN  <<checks.duty7Day.remaining, checks.duty28Day.remaining,
          checks.flightTime28Day.remaining>>

HeadroomNames == <<"7-Day Duty", "28-Day Duty", "28-Day Flight Time">>

\* C11: calculateAvailability names as limitingFactor the check with the
\* smallest remaining headroom among 7-Day Duty, 28-Day Duty and 28-Day
\* Flight Time, the first in that order on a tie, and returns
\* maxAdditionalDuty = max(0, that smallest headroom).
C11_MostRestrictive ==
    (call.op = "calculateAvailability" /\ call.done) =>
        \E i \in 1..3 :
            /\ \A j \in 1..3 : Headrooms[i] <= Headrooms[j]
            /\ \A j \in 1..(i - 1) : Headrooms[j] > Headrooms[i]
            /\ call.result.limitingFactor = HeadroomNames[i]
            /\ call.result.maxAdditionalDuty
                   = (IF Headrooms[i] > 0 THEN Headrooms[i] ELSE 0)

\* The 28-day duty and 28-day flight headrooms are equal and the smallest,
\* and the 28-day duty check is named
C11_Witness ==
    /\ call.op = "calculateAvailability"
    /\ call.done
    /\ Headrooms[2] = Headrooms[3]
    /\ Headrooms[2] < Headrooms[1]
    /\ call.result.limitingFactor = "28-Day Duty"
    /\ call.result.maxAdditionalDuty = 720

-----------------------------------------------------------------------------
(* unnamed/part_000: RestCalculator.                                       *)
(* A duty length in hours is the number of minutes it comes to: the double *)
(* product parseFloat(hours) * 60 is within 1e-12 of it, and is exact at   *)
(* the multiples of 60 it is compared with.  A count of time zones is      *)
(* given in tenths, as the sector count is.                                *)

STANDARD_MIN == 600

EXTENDED_DUTY_MIN == 720

EXTENDED_DUTY_THRESHOLD == 720

VERY_LONG_DUTY_MIN == 840

VERY_LONG_DUTY_THRESHOLD == 840

MIN_SLEEP_OPPORTUNITY == 480

TIMEZONE_ADJUSTMENTS ==
    [c \in {"0-2", "3-4", "5+"} |->
        CASE c = "0-2" -> 0 [] c = "3-4" -> 60 [] c = "5+" -> 120]

ACCLIMATIZATION_PERIODS ==
    [c \in {"0-2", "3-4", "5+"} |->
        CASE c = "0-2" -> 0 [] c = "3-4" -> 48 [] c = "5+" -> 72]

\* RestCalculator.timeToMinutes
rest_timeToMinutes(timeStr) ==
    IF timeStr = <<>> THEN nullNum
    ELSE IF Len(timeStr) # 2 THEN nullNum
    ELSE LET hours == timeStr[1]
             minutes == timeStr[2]
         IN  IF isNaN(hours) \/ isNaN(minutes) THEN nullNum
             ELSE IF hours < 0 \/ hours > 23 \/ minutes < 0 \/ minutes > 59 THEN nullNum
             ELSE hours * 60 + minutes

getTimezoneCategory(zonesCrossed) ==
    LET zones == OrNumber(parseInt(zonesCrossed), 0)
    IN  IF zones <= 2 THEN "0-2"
        ELSE IF zones <= 4 THEN "3-4"
        ELSE "5+"

\* A threshold that has to be passed, not reached
Exceeds(dutyMinutes, threshold) == dutyMinutes > threshold

\* dutyMinutes >= threshold
Reaches(dutyMinutes, threshold) == dutyMinutes >= threshold

\* The base rest requirement and its component
BaseRest(dutyMinutes) ==
    IF Reaches(dutyMinutes, VERY_LONG_DUTY_THRESHOLD)
    THEN [minRest |-> VERY_LONG_DUTY_MIN, reason |-> "Very long duty (14h+)"]
    ELSE IF Reaches(dutyMinutes, EXTENDED_DUTY_THRESHOLD)
    THEN [minRest |-> EXTENDED_DUTY_MIN, reason |-> "Extended duty (12h+)"]
    ELSE [minRest |-> STANDARD_MIN, reason |-> "Standard rest requirement"]

\* Math.ceil(minRest * 1.25)
RecommendedRest(minRest) == (5 * minRest + 3) \div 4

RestFailure(msg) ==
    [success |-> FALSE, minRest |-> nullNum, nextReport |-> nullNum,
     recommendedRest |-> nullNum, components |-> <<>>, error |-> msg]

\* A rest of the zone adjustment alone
AdjustmentOnly(dutyEndTime, dutyLengthHours, timezonesCrossed) ==
    [success |-> TRUE,
     minRest |-> TIMEZONE_ADJUSTMENTS[getTimezoneCategory(timezonesCrossed)],
     nextReport |-> 0, recommendedRest |-> 0, components |-> <<>>,
     error |-> nullStr]

\* RestCalculator.calculate(dutyEndTime, dutyLengthHours, timezonesCrossed)
RestCalculate(dutyEndTime, dutyLengthHours, timezonesCrossed) ==
    LET dutyEndMinutes == rest_timeToMinutes(dutyEndTime)
        dutyMinutes == dutyLengthHours
    IN  IF dutyEndMinutes = nullNum
        THEN RestFailure("Invalid duty end time format. Please use HH:MM.")
        ELSE IF isNaN(dutyMinutes) \/ dutyMinutes < 0 \/ dutyMinutes > 1440
        THEN RestFailure("Invalid duty period length. Please enter 0-24 hours.")
        ELSE
        LET base == BaseRest(dutyMinutes)
            tzCategory == getTimezoneCategory(timezonesCrossed)
            tzAdjustment == TIMEZONE_ADJUSTMENTS[tzCategory]
            adjusted == IF tzAdjustment > 0 THEN base.minRest + tzAdjustment
                        ELSE base.minRest
            minRestWithSleep == MIN_SLEEP_OPPORTUNITY + 120
            minRest == IF adjusted < minRestWithSleep THEN minRestWithSleep ELSE adjusted
            nextReportMinutes == dutyEndMinutes + minRest
        IN  [success |-> TRUE,
             minRest |-> minRest,
             nextReport |-> nextReportMinutes % 1440,
             recommendedRest |-> RecommendedRest(minRest),
             components |->
                 <<[reason |-> base.reason, amount |-> base.minRest, type |-> "base"]>>
                 \o (IF tzAdjustment > 0
                     THEN <<[reason |-> "Time zone crossing", amount |-> tzAdjustment,
                             type |-> "adjustment"]>>
                     ELSE <<>>)
                 \o (IF adjusted < minRestWithSleep
                     THEN <<[reason |-> "Minimum sleep opportunity adjustment",
                             amount |-> minRestWithSleep - minRest,
                             type |-> "adjustment"]>>
                     ELSE <<>>),
             error |-> nullStr]

\* A result that is compliant whatever is proposed
AlwaysCompliant(proposedRestMinutes, dutyLengthMinutes, timezonesCrossed) ==
    [compliant |-> TRUE, deficit |-> nullNum, surplus |-> 0, required |-> nullNum]

\* checkCompliance(proposedRestMinutes, dutyLengthMinutes, timezonesCrossed)
checkCompliance(proposedRestMinutes, dutyLengthMinutes, timezonesCrossed) ==
    LET requiredResult == RestCalculate(<<0, 0>>, dutyLengthMinutes, timezonesCrossed)
        deficit == requiredResult.minRest - proposedRestMinutes
    IN  IF ~requiredResult.success
        THEN [compliant |-> FALSE, deficit |-> nullNum, surplus |-> nullNum,
              required |-> nullNum]
        ELSE IF deficit > 0
        THEN [compliant |-> FALSE, deficit |-> deficit, surplus |-> nullNum,
              required |-> requiredResult.minRest]
        ELSE [compliant |-> TRUE, deficit |-> nullNum,
              surplus |-> IF deficit < 0 THEN 0 - deficit ELSE deficit,
              required |-> nullNum]

\* The inputs of the rest calculator
DutyEndTimes == {<<0, 0>>, <<13, 30>>, <<23, 59>>}

InvalidDutyEndTimes == {<<>>, <<24, 0>>, <<7, NaN>>}

\* Every length of 0..24 hours to the minute, the lengths next to these and
\* no number
DutyLengths == (-1..1441) \cup {NaN}

\* 0 to 7 zones, 2.5 zones, and negative counts
ZoneInputs == {10 * n : n \in 0..7} \cup {25, -10, -30}

RestInputs ==
    {[op |-> "rest.calculate", done |-> FALSE, dutyEndTime |-> dutyEndTime,
      dutyLengthHours |-> dutyLengthHours, timezonesCrossed |-> timezonesCrossed,
      result |-> null] :
        dutyEndTime \in DutyEndTimes \cup InvalidDutyEndTimes,
        dutyLengthHours \in DutyLengths,
        timezonesCrossed \in ZoneInputs}

\* Proposed rests at, next to and between the minimum rests there are
ProposedRests ==
    {0, 599, 600, 601, 660, 719, 720, 721, 780, 839, 840, 841, 900, 959, 960, 961}

CheckComplianceInputs ==
    {[op |-> "checkCompliance", done |-> FALSE,
      proposedRestMinutes |-> proposedRestMinutes,
      dutyLengthMinutes |-> dutyLengthMinutes,
      timezonesCrossed |-> timezonesCrossed, result |-> null] :
        proposedRestMinutes \in ProposedRests,
        dutyLengthMinutes \in 0..1440,
        timezonesCrossed \in {0, 30, 50}}

CalculateRest ==
    /\ call.op = "rest.calculate"
    /\ ~call.done
    /\ call' = [call EXCEPT
                    !.done = TRUE,
                    !.result = RestCalculate(call.dutyEndTime, call.dutyLengthHours,
                                             call.timezonesCrossed)]
    /\ UNCHANGED storeVars

CheckRestCompliance ==
    /\ call.op = "checkCompliance"
    /\ ~call.done
    /\ call' = [call EXCEPT
                    !.done = TRUE,
                    !.result = checkCompliance(call.proposedRestMinutes,
                                               call.dutyLengthMinutes,
                                               call.timezonesCrossed)]
    /\ UNCHANGED storeVars

InitRest ==
    InitStore /\ clock = 0 /\ tz = 0 /\ call \in RestInputs \cup CheckComplianceInputs

NextRest == CalculateRest \/ CheckRestCompliance

SpecRest == InitRest /\ [][NextRest]_vars

\* The base tier of the claim for a duty of d minutes
TierOf(d) == IF d < 720 THEN 600 ELSE IF d < 840 THEN 720 ELSE 840

\* The zone adjustment of the claim for z whole zones
AdjOf(z) == IF z <= 2 THEN 0 ELSE IF z <= 4 THEN 60 ELSE 120

\* A finished call of calculate with a valid end time, a duty of 0..1440
\* minutes and a whole count of zones that is not negative
ValidRestCall ==
    /\ call.op = "rest.calculate"
    /\ call.done
    /\ call.dutyEndTime \in DutyEndTimes
    /\ call.dutyLengthHours \in 0..1440
    /\ call.timezonesCrossed \in {10 * n : n \in 0..7}

\* C12: for every valid duty end time, every preceding duty length d in
\* 0..1440 minutes and every zones-crossed count z >= 0, calculate returns
\* minRest = base(d) + adj(z): base 600 for d < 720, 720 for 720 <= d < 840,
\* 840 for d >= 840; adj 0 for z <= 2, 60 for z in 3..4, 120 for z >= 5.
C12_MinRestIsBasePlusAdjustment ==
    ValidRestCall =>
        /\ call.result.success
        /\ call.result.minRest
               = TierOf(call.dutyLengthHours) + AdjOf(call.timezonesCrossed \div 10)

\* Exactly 12 hours of duty over 3 zones: 720 + 60
C12_Witness ==
    /\ ValidRestCall
    /\ call.dutyLengthHours = 720
    /\ call.timezonesCrossed = 30
    /\ call.result.minRest = 780

\* C13: every successful result of calculate has minRest >= 600 minutes (8
\* hours of sleep opportunity and 2 hours of transition), for every
\* combination of base tier and time-zone adjustment.
C13_SleepOpportunityFloor ==
    (call.op = "rest.calculate" /\ call.done /\ call.result.success)
        => call.result.minRest >= MIN_SLEEP_OPPORTUNITY + 120

\* The lowest tier with no adjustment: a duty of 11h59 over 2 zones rests
\* 600 minutes
C13_Witness ==
    /\ call.op = "rest.calculate"
    /\ call.done
    /\ call.result.success
    /\ call.dutyLengthHours = 719
    /\ call.timezonesCrossed = 20
    /\ call.result.minRest = 600

\* C14: for every preceding duty length in 0..1440 minutes, zones count and
\* proposed rest, checkCompliance reports compliant exactly when
\* proposed >= minRest(duty, zones); when not compliant
\* deficit = minRest - proposed > 0, when compliant
\* surplus = proposed - minRest >= 0; and the minRest compared against is the
\* same for every anchor duty-end time.
C14_CheckCompliance ==
    (call.op = "checkCompliance" /\ call.done) =>
        LET minRest == RestCalculate(<<0, 0>>, call.dutyLengthMinutes,
                                     call.timezonesCrossed).minRest
            proposed == call.proposedRestMinutes
        IN  /\ \A anchor \in DutyEndTimes :
                   RestCalculate(anchor, call.dutyLengthMinutes,
                                 call.timezonesCrossed).minRest = minRest
            /\ minRest = TierOf(call.dutyLengthMinutes)
                             + AdjOf(call.timezonesCrossed \div 10)
            /\ call.result.compliant <=> proposed >= minRest
            /\ ~call.result.compliant =>
                   /\ call.result.deficit = minRest - proposed
                   /\ call.result.deficit > 0
                   /\ call.result.required = minRest
            /\ call.result.compliant =>
                   /\ call.result.surplus = proposed - minRest
                   /\ call.result.surplus >= 0

\* A rest of 11h59 proposed after exactly 12 hours of duty is one minute
\* short
C14_Witness ==
    /\ call.op = "checkCompliance"
    /\ call.done
    /\ call.dutyLengthMinutes = 720
    /\ call.timezonesCrossed = 0
    /\ call.proposedRestMinutes = 719
    /\ ~call.result.compliant
    /\ call.result.deficit = 1

-----------------------------------------------------------------------------
(* Further claims on the FDP calculator *)

\* The minutes of the day and the whole sector count of a valid call
ReportMinutesOf == call.reportTime[1] * 60 + call.reportTime[2]

SectorCountOf == call.sectors \div 10

\* The report-time buckets of the specification, as sets of minutes
ReportBuckets ==
    [r \in DOMAIN FDP_TABLE |->
        CASE r = "0600-0659" -> 360..419
          [] r = "0700-1159" -> 420..719
          [] r = "1200-1359" -> 720..839
          [] r = "1400-1759" -> 840..1079
          [] r = "1800-2159" -> 1080..1319
          [] r = "2200-0559" -> (1320..1439) \cup (0..359)]

\* The sector buckets of the specification
SectorBuckets ==
    [r \in {"1-2", "3-4", "5+"} |->
        CASE r = "1-2" -> 1..2 [] r = "3-4" -> 3..4 [] r = "5+" -> 5..10]

\* The table value of a valid call, by the buckets of the specification
TableValueOf ==
    LET r == CHOOSE r \in DOMAIN ReportBuckets : ReportMinutesOf \in ReportBuckets[r]
        c == CHOOSE c \in DOMAIN SectorBuckets : SectorCountOf \in SectorBuckets[c]
    IN  FDP_TABLE[r][c]

\* C15: for every valid report time and sector count the unacclimatized
\* maxFDP is max(540, table value - 60) with exactly one itemized deduction
\* of 60 minutes, and the acclimatized maxFDP is the table value with no
\* deduction.
C15_AcclimatizationDeduction ==
    ValidCalculateCall =>
        IF call.acclimatizationStatus = "unacclimatized"
        THEN /\ call.result.maxFDP
                    = (IF TableValueOf - 60 > 540 THEN TableValueOf - 60 ELSE 540)
             /\ Len(call.result.reductions) = 1
             /\ call.result.reductions[1].amount = 60
        ELSE /\ call.result.maxFDP = TableValueOf
             /\ call.result.reductions = <<>>

\* 07:00, 1 sector, unacclimatized gives 840 - 60
C15_Witness ==
    /\ ValidCalculateCall
    /\ call.reportTime = <<7, 0>>
    /\ call.sectors = 10
    /\ call.acclimatizationStatus = "unacclimatized"
    /\ call.result.maxFDP = 780
    /\ Len(call.result.reductions) = 1

\* C16: for every fixed report time and acclimatization status the maxFDP of
\* calculate never increases as the sector count goes from 1 to 10.
C16_MonotoneInSectors ==
    (ValidCalculateCall /\ SectorCountOf < 10) =>
        call.result.maxFDP
            >= FDPCalculate(call.reportTime, call.sectors + 10,
                            call.acclimatizationStatus).maxFDP

\* From 2 sectors to 3 at 09:00 the maxFDP goes down from 840 to 810
C16_Witness ==
    /\ ValidCalculateCall
    /\ call.reportTime = <<9, 0>>
    /\ call.sectors = 20
    /\ call.acclimatizationStatus = "acclimatized"
    /\ call.result.maxFDP = 840
    /\ FDPCalculate(call.reportTime, 30, call.acclimatizationStatus).maxFDP = 810

\* Some minute of the WOCL window [02:00, 06:00) is in the circular interval
\* [report, report + maxFDP) of the call
DutyMeetsWOCL ==
    \E w \in 120..359 : (w - ReportMinutesOf) % 1440 < call.result.maxFDP

\* C17: for every valid report time, sector count and acclimatization status
\* woclEncroachment is true exactly when the circular interval
\* [report, endOfDuty) on the 24-hour clock meets the window [02:00, 06:00),
\* duties that cross midnight included.
C17_WOCLEncroachment ==
    ValidCalculateCall => (call.result.woclEncroachment <=> DutyMeetsWOCL)

\* A duty from 18:00 that ends at 05:00 of the next day encroaches
C17_Witness ==
    /\ ValidCalculateCall
    /\ call.reportTime = <<18, 0>>
    /\ call.sectors = 10
    /\ call.acclimatizationStatus = "acclimatized"
    /\ call.result.endOfDuty = 300
    /\ call.result.nextDay
    /\ call.result.woclEncroachment

\* C18: calculate returns a failure result (success = false, an error
\* message, maxFDP and endOfDuty null) whenever the report time does not
\* parse as HH:MM with hour 0..23 and minute 0..59 or the sector count is not
\* an integer in 1..10; for every other input it returns success = true with
\* error null and maxFDP and endOfDuty populated.
C18_FailureExactlyOnInvalidInput ==
    (call.op = "calculate" /\ call.done) =>
        IF call.reportTime \in ValidTimes /\ call.sectors \in {10 * n : n \in 1..10}
        THEN /\ call.result.success
             /\ call.result.error = nullStr
             /\ call.result.maxFDP # nullNum
             /\ call.result.endOfDuty # nullNum
        ELSE /\ ~call.result.success
             /\ call.result.error # nullStr
             /\ call.result.maxFDP = nullNum
             /\ call.result.endOfDuty = nullNum

\* C20: every minute of the day falls in exactly one report-time bucket,
\* every sector count 1..10 in exactly one of 1-2, 3-4, 5+, and the base value
\* calculate uses is the table entry of that pair of buckets.
C20_Buckets ==
    ValidCalculateCall =>
        /\ Cardinality({r \in DOMAIN ReportBuckets :
                            ReportMinutesOf \in ReportBuckets[r]}) = 1
        /\ Cardinality({c \in DOMAIN SectorBuckets :
                            SectorCountOf \in SectorBuckets[c]}) = 1
        /\ ReportMinutesOf \in ReportBuckets[call.result.reportTimeRange]
        /\ SectorCountOf \in SectorBuckets[call.result.sectorRange]
        /\ call.acclimatizationStatus = "acclimatized"
               => call.result.maxFDP = TableValueOf
        /\ call.acclimatizationStatus = "unacclimatized"
               => call.result.maxFDP + 60 >= TableValueOf

\* 23:59 with 5 sectors is in the night bucket and the 5+ bucket: 540
C20_Witness ==
    /\ ValidCalculateCall
    /\ call.reportTime = <<23, 59>>
    /\ call.sectors = 50
    /\ call.acclimatizationStatus = "acclimatized"
    /\ call.result.reportTimeRange = "2200-0559"
    /\ call.result.sectorRange = "5+"
    /\ call.result.maxFDP = 540

-----------------------------------------------------------------------------
(* Validation in the rest calculator *)

\* C19: RestCalculator.calculate returns a failure result (success = false,
\* an error message, minRest null) whenever the duty end time does not
\* parse, the preceding duty length is outside 0..24 hours or the
\* time-zones-crossed value is negative; it returns success only when all
\* three inputs are in range.
C19_RestFailureOnInvalidInput ==
    (call.op = "rest.calculate" /\ call.done) =>
        IF /\ call.dutyEndTime \in DutyEndTimes
           /\ call.dutyLengthHours \in 0..1440
           /\ call.timezonesCrossed >= 0
        THEN call.result.success
        ELSE /\ ~call.result.success
             /\ call.result.error # nullStr
             /\ call.result.minRest = nullNum

-----------------------------------------------------------------------------
(* runAllChecks called twice on one record set *)

\* Zones at and east of UTC
RepeatZones == {0, 60}

\* 00:30 of the local day
EarlyLocalTime == 30

\* From 00:30 to 12:00 of the same local day
LaterMinutes == 690

RepeatRecords ==
    {[date |-> Today - off, dutyMinutes |-> mm[1], flightMinutes |-> mm[2]] :
        off \in {0, 7}, mm \in {<<600, 300>>, <<3060, 5712>>}}

\* A call that has its arguments, the record set as it was given, and the
\* reports of the runs made so far
RepeatInputs ==
    {[op |-> "runAllChecks", done |-> FALSE, given |-> records,
      dutyRecords |-> records, currentDuty |-> currentDuty, reports |-> <<>>] :
        records \in UNION {{rs \in [1..k -> RepeatRecords] : LatestFirst(rs)} :
                              k \in 0..MaxRecords},
        currentDuty \in {null, [elapsedFDP |-> 510, maxFDP |-> 600]}}

\* One more run on the record set the call holds; runAllChecks reads the
\* records with filter and reduce and writes nothing to them
RunAllChecksAgain ==
    /\ call.op = "runAllChecks"
    /\ "reports" \in DOMAIN call
    /\ Len(call.reports) < 2
    /\ call' = [call EXCEPT
                    !.done = Len(call.reports) = 1,
                    !.reports = Append(call.reports,
                                       runAllChecks(call.dutyRecords, call.currentDuty,
                                                    clock, tz))]
    /\ UNCHANGED storeVars

\* The day goes on between the runs, the local date staying the same
LaterSameDay ==
    /\ call.op = "runAllChecks"
    /\ "reports" \in DOMAIN call
    /\ Len(call.reports) = 1
    /\ LocalDay(clock + LaterMinutes, tz) = LocalDay(clock, tz)
    /\ (clock + tz) % 1440 = EarlyLocalTime
    /\ clock' = clock + LaterMinutes
    /\ UNCHANGED <<storageAvailable, acp700_active_duty, acp700_duty_records, nextId, tz,
                   state, timers, call>>

InitRepeat ==
    /\ InitStore
    /\ tz \in RepeatZones
    /\ clock \in {Today * 1440 + EarlyLocalTime - tz,
                  Today * 1440 + EarlyLocalTime + LaterMinutes - tz}
    /\ call \in RepeatInputs

NextRepeat == RunAllChecksAgain \/ LaterSameDay

SpecRepeat == InitRepeat /\ [][NextRepeat]_vars

\* C21: calling runAllChecks twice with the same record set, the same session
\* argument and the same current date yields two identical reports, and the
\* call leaves the record set it was given unchanged.
C21_SameDateSameReport ==
    (call.op = "runAllChecks" /\ call.done) =>
        /\ call.reports[1] = call.reports[2]
        /\ call.dutyRecords = call.given

-----------------------------------------------------------------------------
(* app.js: the page.  state.currentDuty is the session the page shows,      *)
(* state.dutyTimerInterval the handle of the one-second timer, timers the   *)
(* number of such intervals that are live.                                  *)

\* startDutyTimer(): clearInterval of the earlier handle, then setInterval
startDutyTimer(st, live) ==
    [state |-> [st EXCEPT !.dutyTimerInterval = TRUE],
     timers |-> (IF st.dutyTimerInterval THEN live - 1 ELSE live) + 1]

\* A stop that clears the interval and keeps state.currentDuty
ClearTimerOnly(st, live) ==
    [state |-> [st EXCEPT !.dutyTimerInterval = FALSE],
     timers |-> IF st.dutyTimerInterval THEN live - 1 ELSE live]

\* stopDutyTimer(): clearInterval of the handle, and state.currentDuty = null
stopDutyTimer(st, live) ==
    [state |-> [st EXCEPT !.dutyTimerInterval = FALSE, !.currentDuty = null],
     timers |-> IF st.dutyTimerInterval THEN live - 1 ELSE live]

\* state.currentDuty.acclimatized ? 'acclimatized' : 'unacclimatized'
StatusOfFlag(acclimatized) == IF acclimatized THEN "acclimatized" ELSE "unacclimatized"

\* fdpResult.success ? fdpResult.maxFDP : 840
MaxFdpMinutesOf(fdpResult) == IF fdpResult.success THEN fdpResult.maxFDP ELSE 840

\* The object addDutyRecord stores for a record, under a given identifier
normalizedRecordOf(record, id) ==
    [id |-> id,
     date |-> record.date,
     reportTime |-> record.reportTime,
     releaseTime |-> record.releaseTime,
     dutyMinutes |-> DutyMinutes(storage_timeToMinutes(record.reportTime),
                                 storage_timeToMinutes(record.releaseTime)),
     flightMinutes |-> FlightMinutes(Get(record, "flightTime", NaN)),
     sectors |-> IF Get(record, "sectors", 0) = 0 THEN 1 ELSE record.sectors]

\* The values of the sectors selector that are chosen, in tenths: "2" (the
\* value resetDutyUI sets) and "6"
SelectorValues == {20, 60}

\* What confirm() and the flight-time prompt give: the duty is logged with
\* 1.5 hours of flight, or it is not logged
PageEndInputs ==
    {[flightTime |-> f, logDuty |-> TRUE] : f \in FlightTimeInputs}
    \cup {[flightTime |-> 0, logDuty |-> FALSE]}

\* The page logs a duty into a store of fewer records than this
PageMaxStored == 1

\* init(), to restoreActiveDuty(); the handlers are bound here
PageInit ==
    /\ ~state.initialized
    /\ LET activeDuty == getActiveDuty
           restored == startDutyTimer([state EXCEPT !.currentDuty = activeDuty], timers)
       IN  IF activeDuty # null
           THEN /\ state' = [restored.state EXCEPT !.initialized = TRUE]
                /\ timers' = restored.timers
           ELSE /\ state' = [state EXCEPT !.initialized = TRUE]
                /\ timers' = timers
    /\ call' = [op |-> "init", done |-> TRUE]
    /\ UNCHANGED <<storageAvailable, acp700_active_duty, acp700_duty_records, nextId,
                   clock, tz>>

\* The page is loaded again: a new state object, and the intervals of the
\* old page are gone
Reload ==
    /\ state.initialized
    /\ state' = InitialState
    /\ timers' = 0
    /\ call' = [op |-> "environment", done |-> TRUE]
    /\ UNCHANGED <<storageAvailable, acp700_active_duty, acp700_duty_records, nextId,
                   clock, tz>>

\* handleStartDuty(), with StorageManager.startDuty
HandleStartDuty ==
    /\ state.initialized
    /\ \E reportTime \in toLocaleTimeString(clock, tz), sectors \in SelectorValues,
          outcome \in SetItemOutcomes :
        LET fdpResult == FDPCalculate(reportTime, sectors, "acclimatized")
            dutyInfo == [reportTime |-> reportTime,
                         sectors |-> parseInt(sectors),
                         maxFdpMinutes |-> MaxFdpMinutesOf(fdpResult),
                         acclimatized |-> TRUE]
            activeDuty ==
                [startTime |-> clock,
                 reportTime |-> OrTime(dutyInfo.reportTime, reportTime),
                 sectors |-> OrNumber(dutyInfo.sectors, 2),
                 acclimatized |-> dutyInfo.acclimatized # FALSE,
                 maxFdpMinutes |-> OrNumber(dutyInfo.maxFdpMinutes, 840),
                 date |-> UTCDate(clock)]
            success == /\ storageAvailable
                       /\ ~AlreadyOnDuty(getActiveDuty)
                       /\ outcome = "ok"
            started == startDutyTimer([state EXCEPT !.currentDuty = activeDuty], timers)
        IN  /\ acp700_active_duty' = IF success THEN activeDuty ELSE acp700_active_duty
            /\ state' = IF success THEN started.state ELSE state
            /\ timers' = IF success THEN started.timers ELSE timers
            /\ call' = [op |-> "handleStartDuty", done |-> TRUE, success |-> success]
    /\ UNCHANGED <<storageAvailable, acp700_duty_records, nextId, clock, tz>>

\* handleSectorsChange(), with StorageManager.updateActiveDuty
HandleSectorsChange ==
    /\ state.initialized
    /\ IF state.currentDuty = null
       THEN /\ call' = [op |-> "handleSectorsChange", done |-> TRUE, success |-> FALSE]
            /\ UNCHANGED storeVars
       ELSE \E sectors \in SelectorValues, outcome \in SetItemOutcomes :
            LET fdpResult == FDPCalculate(state.currentDuty.reportTime, sectors,
                                          StatusOfFlag(state.currentDuty.acclimatized))
                updates == [sectors |-> parseInt(sectors),
                            maxFdpMinutes |-> MaxFdpMinutesOf(fdpResult)]
                currentDuty == getActiveDuty
                success == currentDuty # null /\ outcome = "ok"
            IN  /\ acp700_active_duty' =
                       IF success THEN Spread(currentDuty, updates) ELSE acp700_active_duty
                /\ state' = [state EXCEPT !.currentDuty = Spread(state.currentDuty, updates)]
                /\ call' = [op |-> "handleSectorsChange", done |-> TRUE,
                            success |-> success]
                /\ UNCHANGED <<storageAvailable, acp700_duty_records, nextId, clock, tz,
                               timers>>

\* handleEndDuty(), with StorageManager.endDuty and StorageManager.addDutyRecord.
\* ended is what endDuty answered, logged what addDutyRecord answered.
HandleEndDuty ==
    /\ state.initialized
    /\ IF state.currentDuty = null
       THEN /\ call' = [op |-> "handleEndDuty", done |-> TRUE, shouldLog |-> FALSE,
                        ended |-> FALSE, logged |-> FALSE]
            /\ UNCHANGED storeVars
       ELSE \E endInfo \in PageEndInputs,
               releaseTime \in toLocaleTimeString(clock, tz), outcome \in SaveOutcomes :
            LET shouldLog == endInfo.logDuty
                currentDuty == getActiveDuty
                ended == currentDuty # null
                record == dutyRecord(currentDuty, releaseTime, endInfo)
                stopped == stopDutyTimer(state, timers)
                saved == saveDutyRecords(
                             <<normalizedRecordOf(record, nextId)>> \o getDutyRecords,
                             outcome)
                logs == ended /\ shouldLog
            IN  /\ shouldLog => Len(acp700_duty_records) < PageMaxStored
                /\ ~shouldLog => outcome = "ok"
                /\ acp700_active_duty' = IF ended THEN null ELSE acp700_active_duty
                /\ state' = IF ended THEN stopped.state ELSE state
                /\ timers' = IF ended THEN stopped.timers ELSE timers
                /\ acp700_duty_records' = IF logs THEN saved.stored ELSE acp700_duty_records
                /\ nextId' = IF logs THEN generateId(saved.stored) ELSE nextId
                /\ call' = [op |-> "handleEndDuty", done |-> TRUE, shouldLog |-> shouldLog,
                            ended |-> ended,
                            logged |-> logs /\ saved.success]
                /\ UNCHANGED <<storageAvailable, clock, tz>>

InitApp == InitStore /\ clock = StartClock /\ tz \in TzOffsets /\ call = NoCall

NextApp ==
    \/ PageInit
    \/ Reload
    \/ HandleStartDuty
    \/ HandleSectorsChange
    \/ HandleEndDuty
    \/ Tick

SpecApp == InitApp /\ [][NextApp]_vars

-----------------------------------------------------------------------------
(* C22: whenever a session is active, its stored maxFdpMinutes is the       *)
(* maxFDP that FDPCalculator.calculate gives for the session's report time, *)
(* sector count and acclimatization flag.  The page starts a session in the *)
(* hour after midnight on an engine that renders that hour "24": calculate  *)
(* refuses "24:00", and the session is stored with 840.                     *)
C22_StoredMaxIsCalculated ==
    acp700_active_duty # null =>
        LET fdpResult == FDPCalculate(acp700_active_duty.reportTime,
                                      10 * acp700_active_duty.sectors,
                                      StatusOfFlag(acp700_active_duty.acclimatized))
        IN  /\ fdpResult.success
            /\ acp700_active_duty.maxFdpMinutes = fdpResult.maxFDP

-----------------------------------------------------------------------------
(* C23: cancelActiveDuty leaves no active session (the stored session is    *)
(* removed when localStorage can be used; when it cannot, there is no       *)
(* session to be read and the call answers false), and the stored duty      *)
(* records are exactly what they were.                                      *)
C23_CancelLeavesRecords ==
    [][Called("cancelActiveDuty") =>
          /\ getActiveDuty' = null
          /\ storageAvailable => acp700_active_duty' = null
          /\ call'.success = storageAvailable
          /\ acp700_duty_records' = acp700_duty_records
          /\ nextId' = nextId]_vars

\* A session has been cancelled in a store that holds a duty record
C23_Witness ==
    /\ call.op = "cancelActiveDuty"
    /\ call.success
    /\ acp700_active_duty = null
    /\ acp700_duty_records # <<>>

-----------------------------------------------------------------------------
(* deleteDutyRecord, call by call: a store that earlier additions left, and *)
(* one identifier to delete                                                 *)

\* The record that addDutyRecord stored for a duty of 08:00 to 10:00 or of
\* 23:00 to 01:00
StoredRecords ==
    {normalizedRecordOf([date |-> date, reportTime |-> times[1],
                         releaseTime |-> times[2], flightTime |-> 15], id) :
        id \in 1..(MaxStored + 1), date \in {Today - 1, Today},
        times \in {<<<<8, 0>>, <<10, 0>>>>, <<<<23, 0>>, <<1, 0>>>>}}

\* Lists of records with different identifiers, in any order: addDutyRecord
\* puts the new record first, whatever its date
StoredLists ==
    {records \in UNION {[1..n -> StoredRecords] : n \in 0..MaxStored} :
        \A i, j \in 1..Len(records) : records[i].id = records[j].id => i = j}

DeleteInputs ==
    {[op |-> "deleteDutyRecord", done |-> FALSE, id |-> id] : id \in 1..(MaxStored + 1)}

DeleteStored ==
    /\ call.op = "deleteDutyRecord"
    /\ ~call.done
    /\ \E outcome \in RemovalOutcomes : DeleteDutyRecord(call.id, outcome)

InitDelete ==
    /\ storageAvailable \in BOOLEAN
    /\ acp700_active_duty = null
    /\ acp700_duty_records \in StoredLists
    /\ nextId = generateId(acp700_duty_records)
    /\ state = InitialState
    /\ timers = 0
    /\ clock = Today * 1440 + 720
    /\ tz = 0
    /\ call \in DeleteInputs

NextDelete == DeleteStored

SpecDelete == InitDelete /\ [][NextDelete]_vars

\* The records of a list, as a set
RecordsOf(records) == {records[i] : i \in 1..Len(records)}

(* C24: deleteDutyRecord(id) with the id of a stored record removes exactly *)
(* that record and leaves every other record as it was (when the store      *)
(* refuses the write it answers 'Failed to delete record' and nothing is    *)
(* changed); with an id that is not stored it answers 'Record not found'    *)
(* and the records are unchanged.                                           *)
C24_DeleteRemovesExactlyOne ==
    [][Called("deleteDutyRecord") =>
          LET before == getDutyRecords
              after == getDutyRecords'
              target == {r \in RecordsOf(before) : r.id = call.id}
          IN  IF target # {}
              THEN \/ /\ call'.success
                      /\ RecordsOf(after) = RecordsOf(before) \ target
                      /\ Len(after) = Len(before) - 1
                   \/ /\ ~call'.success
                      /\ call'.error = "Failed to delete record"
                      /\ acp700_duty_records' = acp700_duty_records
              ELSE /\ ~call'.success
                   /\ call'.error = "Record not found"
                   /\ acp700_duty_records' = acp700_duty_records]_vars

\* A record has been deleted from a store that still holds another one
C24_Witness ==
    /\ call.op = "deleteDutyRecord"
    /\ call.done
    /\ call.success
    /\ acp700_duty_records # <<>>

-----------------------------------------------------------------------------
(* formatDuration (fdp-calculator.js, compliance.js, the rest calculator).  *)
(* The text is given by its form and the numbers printed in it: "--",       *)
(* "Ym" (minutes as they are), "Xh", and "Xh YYm" (minutes padded to two    *)
(* digits).                                                                 *)

Formatted(form, hours, minutes) == [form |-> form, hours |-> hours, minutes |-> minutes]

\* formatDuration(totalMinutes) of fdp-calculator.js and of the rest
\* calculator, for minutes that are not negative
formatDuration(totalMinutes) ==
    IF totalMinutes = nullNum THEN Formatted("--", nullNum, nullNum)
    ELSE LET hours == totalMinutes \div 60
             minutes == totalMinutes % 60
         IN  IF hours = 0 THEN Formatted("Ym", nullNum, minutes)
             ELSE IF minutes = 0 THEN Formatted("Xh", hours, nullNum)
             ELSE Formatted("Xh YYm", hours, minutes)

\* Math.abs(totalMinutes)
Abs(n) == IF n < 0 THEN 0 - n ELSE n

\* formatDuration(totalMinutes) of compliance.js
compliance_formatDuration(totalMinutes) ==
    IF totalMinutes = nullNum THEN Formatted("--", nullNum, nullNum)
    ELSE LET hours == Abs(totalMinutes) \div 60
             minutes == Abs(totalMinutes) % 60
         IN  IF hours = 0 THEN Formatted("Ym", nullNum, minutes)
             ELSE IF minutes = 0 THEN Formatted("Xh", hours, nullNum)
             ELSE Formatted("Xh YYm", hours, minutes)

\* The longest duration formatted: 25 hours
MaxFormatMinutes == 1500

FormatInputs ==
    {[op |-> "formatDuration", done |-> FALSE, totalMinutes |-> totalMinutes,
      result |-> null, complianceResult |-> null] :
        totalMinutes \in (0..MaxFormatMinutes) \cup {nullNum}}

FormatDuration ==
    /\ call.op = "formatDuration"
    /\ ~call.done
    /\ call' = [call EXCEPT !.done = TRUE,
                            !.result = formatDuration(call.totalMinutes),
                            !.complianceResult =
                                compliance_formatDuration(call.totalMinutes)]
    /\ UNCHANGED storeVars

InitFormat == InitStore /\ clock = 0 /\ tz = 0 /\ call \in FormatInputs

NextFormat == FormatDuration

SpecFormat == InitFormat /\ [][NextFormat]_vars

\* The text the claim asks for a number of minutes
ClaimedFormat(m) ==
    IF m % 60 = 0 THEN Formatted("Xh", m \div 60, nullNum)
    ELSE IF m < 60 THEN Formatted("Ym", nullNum, m)
    ELSE Formatted("Xh YYm", m \div 60, m % 60)

(* C25: for every whole number of minutes m >= 0, formatDuration gives 'Xh' *)
(* exactly when m is a multiple of 60, 'Ym' when m is under 60 and not a    *)
(* multiple of 60, and 'Xh YYm' with X = floor(m / 60), YY = m mod 60       *)
(* otherwise.  formatDuration(0) is "0m": 0 is a multiple of 60.            *)
C25_FormatDuration ==
    (call.op = "formatDuration" /\ call.done /\ call.totalMinutes # nullNum) =>
        /\ call.result = ClaimedFormat(call.totalMinutes)
        /\ call.complianceResult = ClaimedFormat(call.totalMinutes)

-----------------------------------------------------------------------------
\* The checks that runAllChecks aggregates: allChecks, without the null ones
Aggregated(r) ==
    SelectSeq(<<r.duty7Day, r.duty28Day, r.flightTime28Day, r.currentFDP,
                r.currentFlightTime>>,
              LAMBDA c : c # null)

(* C26: in every runAllChecks report overallStatus is GOOD only if every    *)
(* aggregated check (7-day duty, 28-day duty, 28-day flight time and the    *)
(* two current-duty checks when present) has status GOOD.  A check whose    *)
(* total equals its limit has status EXCEEDED and compliant = true: it is   *)
(* no violation, no DANGER and no WARNING, and overallStatus stays GOOD.    *)
C26_GoodOnlyIfAllGood ==
    (call.op = "runAllChecks" /\ call.done /\ "result" \in DOMAIN call) =>
        LET r == call.result
            aggregated == Aggregated(r)
        IN  r.overallStatus = "good" =>
                \A i \in 1..Len(aggregated) : aggregated[i].status = "good"

-----------------------------------------------------------------------------
(* C27: when End Duty is confirmed with logging, after handleEndDuty either *)
(* a new duty record with the session's date, report time and sectors is in *)
(* the store, or the session is still active; also when the write of the    *)
(* record fails.  handleEndDuty ends the session first (endDuty removes it) *)
(* and adds the record afterwards: a refused write leaves neither.          *)
C27_LoggedDutyIsNotLost ==
    [][(Called("handleEndDuty") /\ call'.shouldLog /\ call'.ended) =>
          \/ acp700_active_duty' # null
          \/ \E i \in 1..Len(acp700_duty_records') :
                LET record == acp700_duty_records'[i]
                IN  /\ \A j \in 1..Len(acp700_duty_records) :
                            acp700_duty_records[j].id # record.id
                    /\ record.date = acp700_active_duty.date
                    /\ record.reportTime = acp700_active_duty.reportTime
                    /\ record.sectors = acp700_active_duty.sectors]_vars

-----------------------------------------------------------------------------
(* The three classifications of the elapsed FDP *)

\* calculateRemaining(reportTime, elapsedMinutes, sectors,
\* acclimatizationStatus): its status and maxFDP
calculateRemaining(reportTime, elapsedMinutes, sectors, acclimatizationStatus) ==
    LET fdpResult == FDPCalculate(reportTime, sectors, acclimatizationStatus)
        remaining == fdpResult.maxFDP - elapsedMinutes
    IN  IF ~fdpResult.success
        THEN [remaining |-> nullNum, status |-> "unknown", maxFDP |-> nullNum]
        ELSE [remaining |-> Max(0, remaining),
              status |-> IF remaining <= 60 THEN "danger"
                         ELSE IF remaining <= 120 THEN "warning"
                         ELSE "good",
              maxFDP |-> fdpResult.maxFDP]

\* updateDutyDisplay(): the text of the status element, for a session of the
\* given elapsed minutes.  percentage >= p is 100 * elapsed >= p * max, and
\* Math.min(..., 100) >= 100 is elapsed >= max.
updateDutyDisplay(elapsedMinutes, maxFdpMinutes) ==
    LET maxMinutes == OrNumber(maxFdpMinutes, 840)
    IN  IF elapsedMinutes >= maxMinutes THEN "EXCEEDED"
        ELSE IF 100 * elapsedMinutes >= 90 * maxMinutes THEN "CRITICAL"
        ELSE IF 100 * elapsedMinutes >= 75 * maxMinutes THEN "CAUTION"
        ELSE "OK"

\* The longest elapsed time classified: 15 hours
MaxElapsed == 900

\* One report time in each bucket of the table
TierReportTimes == {<<h, 0>> : h \in {0, 6, 7, 12, 14, 18}}

ClassifyInputs ==
    {[op |-> "classify", done |-> FALSE, reportTime |-> reportTime, sectors |-> sectors,
      acclimatizationStatus |-> acclimatizationStatus,
      elapsedMinutes |-> elapsedMinutes,
      maxFDP |-> nullNum, checkCurrentFDP |-> nullStr, calculateRemaining |-> nullStr,
      updateDutyDisplay |-> nullStr] :
        reportTime \in TierReportTimes, sectors \in {20, 40, 60},
        acclimatizationStatus \in AcclimatizationInputs,
        elapsedMinutes \in 0..MaxElapsed}

\* The three classifications of one session at one moment: the page gives
\* the session's maxFdpMinutes, which is calculate's maxFDP, to the
\* compliance checker and to the countdown
Classify ==
    /\ call.op = "classify"
    /\ ~call.done
    /\ LET remaining == calculateRemaining(call.reportTime, call.elapsedMinutes,
                                           call.sectors, call.acclimatizationStatus)
       IN  call' = [call EXCEPT
                        !.done = TRUE,
                        !.maxFDP = remaining.maxFDP,
                        !.calculateRemaining = remaining.status,
                        !.checkCurrentFDP =
                            checkCurrentFDP(call.elapsedMinutes, remaining.maxFDP).status,
                        !.updateDutyDisplay =
                            updateDutyDisplay(call.elapsedMinutes, remaining.maxFDP)]
    /\ UNCHANGED storeVars

InitClassify == InitStore /\ clock = 0 /\ tz = 0 /\ call \in ClassifyInputs

NextClassify == Classify

SpecClassify == InitClassify /\ [][NextClassify]_vars

\* The tier a text of the countdown stands for
DisplayTier(text) ==
    IF text = "EXCEEDED" THEN "exceeded"
    ELSE IF text = "CRITICAL" THEN "danger"
    ELSE IF text = "CAUTION" THEN "warning"
    ELSE "good"

(* C28: for every max FDP in 540..840 and every elapsed time the three      *)
(* classifications agree on the tier: checkCurrentFDP, the countdown of     *)
(* updateDutyDisplay, and calculateRemaining (whose highest tier, danger,   *)
(* stands for exceeded too).  They switch at 85 / 95 / 100 %, at            *)
(* 75 / 90 / 100 % and at 120 / 60 minutes left.                            *)
C28_TiersAgree ==
    (call.op = "classify" /\ call.done) =>
        /\ call.maxFDP \in 540..840
        /\ DisplayTier(call.updateDutyDisplay) = call.checkCurrentFDP
        /\ call.calculateRemaining =
               IF call.checkCurrentFDP = "exceeded" THEN "danger" ELSE call.checkCurrentFDP

-----------------------------------------------------------------------------
(* C29: in one page with storage available, after init and any sequence of  *)
(* Start Duty, End Duty and sector-change handler runs, state.currentDuty   *)
(* is non-null exactly when the store holds an active session, and the duty *)
(* timer runs exactly when state.currentDuty is non-null; there are never   *)
(* two timers.                                                              *)
C29_PageFollowsStore ==
    /\ timers \in {0, 1}
    /\ (state.initialized /\ storageAvailable) =>
          /\ state.currentDuty # null <=> acp700_active_duty # null
          /\ timers = 1 <=> state.currentDuty # null
          /\ state.dutyTimerInterval <=> timers = 1

\* A session has been ended and another started and changed in one page
C29_Witness ==
    /\ state.initialized
    /\ state.currentDuty # null
    /\ timers = 1
    /\ call.op = "handleSectorsChange"
    /\ acp700_duty_records # <<>>

-----------------------------------------------------------------------------
(* C30: for every valid report time inside the WOCL window [02:00, 06:00),  *)
(* every sector count 1..10 and either acclimatization status, calculate    *)
(* gives woclEncroachment = true; the text 'Report time is within WOCL' is  *)
(* the woclInfo of no result.                                               *)
C30_ReportInWOCLEncroaches ==
    (call.op = "calculate" /\ call.done) =>
        /\ call.result.woclInfo # "Report time is within WOCL"
        /\ (ValidCalculateCall /\ isInWOCL(ReportMinutesOf)) =>
               /\ call.result.success
               /\ call.result.woclEncroachment
               /\ call.result.woclInfo = "Duty encroaches WOCL (0200-0559)"

\* The last minute of the window, with the shortest duty
C30_Witness ==
    /\ ValidCalculateCall
    /\ call.reportTime = <<5, 59>>
    /\ call.sectors = 100
    /\ call.acclimatizationStatus = "unacclimatized"
    /\ call.result.maxFDP = 540
    /\ call.result.woclEncroachment

=============================================================================
